---- MODULE Spec2Model ----
(***************************************************************************)
(* Crawl frontier and visit orchestrator of url_analyzer:                  *)
(*   SingleVisitQueue / PrefixOptimizedSingleVisitQueue                    *)
(*     (classification/utilities/single_visit_queue.py)                    *)
(*   PlaywrightSpider.run / _enqueue_url / _visit / get_visited_url        *)
(*     (classification/browser_automation/playwright_spider.py)            *)
(*   filter_url / get_base_url_from_url / get_fqdn_from_url                *)
(*     (classification/utilities/utilities.py)                             *)
(*                                                                         *)
(* A URL is a sequence of one-character strings, so that prefixes,         *)
(* splitting, canonicalisation and pattern matching are computed on the    *)
(* characters as the Python code computes them.                            *)
(*                                                                         *)
(* Spec and FairSpec are a run of PlaywrightSpider.run; SpecEnqueue is     *)
(* _enqueue_url called on its own, SpecQueue the frontier on its own and   *)
(* SpecScope url_in_scope on its own.  A visit fails by get_visited_url    *)
(* raising; exceptions of PlaywrightPageManagerCloneContext and of         *)
(* VisitedUrl.write_to_directory, which would end run(), are left out.     *)
(*                                                                         *)
(* SpecScenario and FairSpecScenario are a run of PlaywrightSpider.run on  *)
(* a small site.  SpecExplore is the action sequence explorer of           *)
(* dynamic_spider_helpers.py: calls of the branch function and of          *)
(* click_signatures_in_sequence_and_find_new_signatures on a page model.   *)
(* SpecFingerprint is get_signatures_from_page with the calls it has in    *)
(* flight on one page, and SpecContext the calling-context wrappers of     *)
(* run_calling_context.py and the replay of a visit record.                *)
(* SpecReload is reload_url_until_signatures_appear_and_get_signatures on   *)
(* its own, and SpecRateLimit the RateLimiter of api/rate_limit.py.        *)
(***************************************************************************)
EXTENDS Integers, Sequences, FiniteSets, TLC

VARIABLES
  queue,                   \* SingleVisitQueue.queue
  has_ever_been_enqueued,  \* SingleVisitQueue.has_ever_been_enqueued
  trie,                    \* PrefixOptimizedSingleVisitQueue.trie: the paths that hold a value
  pop_log,                 \* history: one record per pop_from_queue call
  enqueued_base_url_to_parameterized_url_set,  \* PlaywrightSpider field (defaultdict(set))
  visited_urls,            \* PlaywrightSpider.visited_urls (dict url -> VisitedUrl)
  skipped_urls,            \* PlaywrightSpider.skipped_urls
  asset_urls,              \* PlaywrightSpider.asset_urls
  config,                  \* the constructor arguments of PlaywrightSpider
  pc,                      \* position of run()
  url,                     \* run(): the url popped in the current iteration
  seeded,                  \* run(): the number of elements of url_list iterated so far
                           \* (SpecEnqueue, SpecQueue: the number of calls made so far)
  iterated,                \* _visit(): the elements of urls_on_page iterated so far
  url_on_page,             \* the loop variable of the for-loop that calls _enqueue_url
  offered,                 \* history: the urls _enqueue_url was called with, canonicalized
  visited_url,             \* _visit(): the VisitedUrl that get_visited_url returned
  failed_urls,             \* history: urls whose visit raised, with the cause
  scope_call,              \* history: the last url_in_scope evaluation
  pages,                   \* the live pages of the browser, by page handle
  branch,                  \* the exploration branch that is running, or NoBranch
  returned,                \* the value the last call returned to its caller, until the next call
  branches,                \* history: the number of exploration branches started
  evaluation,              \* get_signatures_from_page: its position and the calls in flight on the page
  context,                 \* the visit record in hand and what the last calling-context call did
  reload,                  \* reload_url_until_signatures_appear_and_get_signatures: its loop
  rate_limiter             \* the RateLimiter of the api, the clock and the calls it has answered

\* the variables of the crawl
crawl_vars == <<queue, has_ever_been_enqueued, trie, pop_log,
                enqueued_base_url_to_parameterized_url_set, visited_urls,
                skipped_urls, asset_urls, config, pc, url, seeded, iterated,
                url_on_page, offered, visited_url, failed_urls, scope_call>>

\* the variables of the action sequence explorer
explorer_vars == <<pages, branch, returned, branches>>

\* the variables of the browser automation
automation_vars == <<explorer_vars, evaluation, context, reload>>

\* the variables of the api
api_vars == <<rate_limiter>>

vars == <<crawl_vars, automation_vars, api_vars>>

\* Python's None, where the other values are strings (sequences of characters)
None == <<"None">>

\* an Optional[List]: None, or the list
NoneList == [is_none |-> TRUE, list |-> <<>>]
SomeList(l) == [is_none |-> FALSE, list |-> l]

(***************************************************************************)
(* Characters and strings                                                  *)
(***************************************************************************)

\* Op(e) with e evaluated once: a local variable bound to the value of e
With(e, Op(_)) == CHOOSE r \in {Op(x) : x \in {e}} : TRUE

Min(S) == CHOOSE x \in S : \A y \in S : x <= y

Max(S) == CHOOSE x \in S : \A y \in S : y <= x

\* The characters used by the urls of the model, in ASCII order.
Alphabet ==
  <<"#", "&", ".", "/", "1", "2", "3", "4", "8", ":", "=", "?", "@", "H",
    "a", "b", "c", "d", "e", "f", "g", "h", "i", "j", "l", "n", "o", "p",
    "r", "s", "t", "u", "v", "w", "x", "y">>

Ord(c) == CHOOSE i \in 1..Len(Alphabet) : Alphabet[i] = c

\* str.lower() on one character
Lower(c) == IF c = "H" THEN "h" ELSE c

LowerStr(s) == [i \in 1..Len(s) |-> Lower(s[i])]

\* s.startswith(p)
StartsWith(s, p) == Len(s) >= Len(p) /\ SubSeq(s, 1, Len(p)) = p

\* s.find(c) + 1: the first position of the character c in s, 0 when absent
Find(s, c) ==
  IF \E i \in 1..Len(s) : s[i] = c
  THEN CHOOSE i \in 1..Len(s) : s[i] = c /\ \A j \in 1..(i-1) : s[j] # c
  ELSE 0

\* s.rfind(c) + 1
RFind(s, c) ==
  IF \E i \in 1..Len(s) : s[i] = c
  THEN CHOOSE i \in 1..Len(s) : s[i] = c /\ \A j \in (i+1)..Len(s) : s[j] # c
  ELSE 0

\* s.partition(c)[0]
Before(s, c) == With(Find(s, c), LAMBDA k : IF k = 0 THEN s ELSE SubSeq(s, 1, k - 1))

\* s.partition(c)[2]
After(s, c) == With(Find(s, c), LAMBDA k : IF k = 0 THEN <<>> ELSE SubSeq(s, k + 1, Len(s)))

\* s up to the first character that is in chars, all of s when there is none
BeforeAny(s, chars) ==
  With({i \in 1..Len(s) : s[i] \in chars}, LAMBDA ends :
    IF ends = {} THEN s ELSE SubSeq(s, 1, Min(ends) - 1))

\* s.split(c)
RECURSIVE Split(_, _)
Split(s, c) ==
  With(Find(s, c), LAMBDA k :
    IF k = 0 THEN <<s>>
    ELSE With(SubSeq(s, k + 1, Len(s)), LAMBDA rest :
           <<SubSeq(s, 1, k - 1)>> \o Split(rest, c)))

\* c.join(parts)
RECURSIVE Join(_, _)
Join(parts, c) ==
  IF Len(parts) = 0 THEN <<>>
  ELSE IF Len(parts) = 1 THEN parts[1]
  ELSE parts[1] \o <<c>> \o Join(Tail(parts), c)

\* Python's order on strings: s < t
RECURSIVE StrLess(_, _)
StrLess(s, t) ==
  IF Len(t) = 0 THEN FALSE
  ELSE IF Len(s) = 0 THEN TRUE
  ELSE IF s[1] # t[1] THEN Ord(s[1]) < Ord(t[1])
  ELSE StrLess(Tail(s), Tail(t))

(***************************************************************************)
(* Regular expressions: a pattern is a sequence of tokens, a literal       *)
(* character or ANY (the regex ".*")                                       *)
(***************************************************************************)

ANY == "ANY"

\* re.fullmatch(pattern, string) is not None
RECURSIVE FullMatch(_, _)
FullMatch(pattern, string) ==
  IF Len(pattern) = 0 THEN Len(string) = 0
  ELSE IF pattern[1] = ANY
       THEN \E k \in 0..Len(string) :
              FullMatch(Tail(pattern), SubSeq(string, k + 1, Len(string)))
       ELSE /\ Len(string) > 0
            /\ string[1] = pattern[1]
            /\ FullMatch(Tail(pattern), Tail(string))

(***************************************************************************)
(* URL helpers                                                             *)
(***************************************************************************)

\* urllib.parse.urlsplit as w3lib.url.canonicalize_url uses it, for a url of
\* the form scheme://netloc...: the netloc ends at the first "/", "?" or "#",
\* the fragment is cut at the first "#", then the query at the first "?" of
\* what is left
UrlSplit(u) ==
  With(Before(u, ":"), LAMBDA scheme :
  With(SubSeq(u, Len(scheme) + 4, Len(u)), LAMBDA rest :        \* after "://"
  With(BeforeAny(rest, {"/", "?", "#"}), LAMBDA netloc :
  With(SubSeq(rest, Len(netloc) + 1, Len(rest)), LAMBDA tail :
  With(Before(tail, "#"), LAMBDA no_frag :
    [scheme |-> LowerStr(scheme), netloc |-> netloc,
     path |-> Before(no_frag, "?"), query |-> After(no_frag, "?"),
     fragment |-> After(tail, "#")])))))

\* w3lib parse_qsl_to_bytes(query, keep_blank_values=True): the (name, value)
\* pairs of the non-empty "&"-separated fields
RECURSIVE ParseQsl(_)
ParseQsl(fields) ==
  IF Len(fields) = 0 THEN <<>>
  ELSE IF Len(fields[1]) = 0 THEN ParseQsl(Tail(fields))
  ELSE <<  <<Before(fields[1], "="), After(fields[1], "=")>>  >> \o ParseQsl(Tail(fields))

\* the order of Python tuples (name, value)
PairLess(p, q) == StrLess(p[1], q[1]) \/ (p[1] = q[1] /\ StrLess(p[2], q[2]))

\* keyvals.sort()
RECURSIVE SortPairs(_)
SortPairs(pairs) ==
  IF Len(pairs) <= 1 THEN pairs
  ELSE With(CHOOSE i \in 1..Len(pairs) :
              /\ \A j \in 1..Len(pairs) : ~PairLess(pairs[j], pairs[i])
              /\ \A j \in 1..(i-1) : PairLess(pairs[i], pairs[j]), LAMBDA m :
       With(SubSeq(pairs, 1, m - 1) \o SubSeq(pairs, m + 1, Len(pairs)), LAMBDA rest :
         <<pairs[m]>> \o SortPairs(rest)))

\* urlencode(keyvals)
UrlEncode(pairs) ==
  With([i \in 1..Len(pairs) |-> pairs[i][1] \o <<"=">> \o pairs[i][2]], LAMBDA parts :
    Join(parts, "&"))

\* w3lib.url.canonicalize_url(url, keep_fragments=True): scheme and host in
\* lower case, an empty path replaced by "/", the query arguments sorted, the
\* fragment kept
canonicalize_url(u) ==
  With(UrlSplit(u), LAMBDA p :
  With(Split(p.query, "&"), LAMBDA fields :
  With(ParseQsl(fields), LAMBDA keyvals :
  With(SortPairs(keyvals), LAMBDA sorted :
  With(UrlEncode(sorted), LAMBDA query :
    p.scheme \o <<":", "/", "/">> \o LowerStr(p.netloc)
      \o (IF Len(p.path) = 0 THEN <<"/">> ELSE p.path)
      \o (IF Len(query) = 0 THEN <<>> ELSE <<"?">> \o query)
      \o (IF Len(p.fragment) = 0 THEN <<>> ELSE <<"#">> \o p.fragment))))))

\* get_base_url_from_url: url.split("?")[0]
get_base_url_from_url(u) == Split(u, "?")[1]

\* tldextract: the url without its scheme, "scheme://" or "//"
Schemeless(u) ==
  With({i \in 1..(Len(u) - 1) : u[i] = "/" /\ u[i+1] = "/"}, LAMBDA dd :
    IF dd = {} THEN u
    ELSE With(Min(dd), LAMBDA first :
           IF first = 1 THEN SubSeq(u, 3, Len(u))
           ELSE IF first < 3 \/ u[first - 1] # ":" THEN u
           ELSE SubSeq(u, first + 2, Len(u))))

\* get_fqdn_from_url: tldextract.extract(url) reads the host out of the url
\* (after the scheme's "//", up to the first "/", "?" or "#", after the last
\* "@", before the first ":") and the non-empty subdomain, domain and suffix
\* joined by "." give that host back
get_fqdn_from_url(u) ==
  With(Schemeless(u), LAMBDA schemeless :
  With(BeforeAny(schemeless, {"/", "?", "#"}), LAMBDA authority :
  With(SubSeq(authority, RFind(authority, "@") + 1, Len(authority)), LAMBDA after_userinfo :
    Before(after_userinfo, ":"))))

\* filter_url that lets a url through as soon as ONE of the tests accepts it
filter_url_any(u, included_fqdn_regex, excluded_fqdn_regex_list, included_url_regex, excluded_url_regex_list) ==
  With(get_fqdn_from_url(u), LAMBDA fqdn :
    \/ (included_fqdn_regex # None /\ FullMatch(included_fqdn_regex, fqdn))
    \/ (included_url_regex # None /\ FullMatch(included_url_regex, u)))

\* filter_url: the flag "included" after each of the four tests
filter_url(u, included_fqdn_regex, excluded_fqdn_regex_list, included_url_regex, excluded_url_regex_list) ==
  With(get_fqdn_from_url(u), LAMBDA fqdn :
  With(IF included_fqdn_regex # None
       THEN FullMatch(included_fqdn_regex, fqdn) ELSE TRUE, LAMBDA included1 :
  With(IF included1 /\ included_url_regex # None
       THEN FullMatch(included_url_regex, u) ELSE included1, LAMBDA included2 :
  With(IF included2 /\ ~excluded_fqdn_regex_list.is_none
                    /\ Len(excluded_fqdn_regex_list.list) > 0
       THEN ~\E i \in 1..Len(excluded_fqdn_regex_list.list) :
               FullMatch(excluded_fqdn_regex_list.list[i], fqdn)
       ELSE included2, LAMBDA included3 :
    IF included3 /\ ~excluded_url_regex_list.is_none
                 /\ Len(excluded_url_regex_list.list) > 0
    THEN ~\E i \in 1..Len(excluded_url_regex_list.list) :
            FullMatch(excluded_url_regex_list.list[i], u)
    ELSE included3))))

\* PlaywrightSpider.url_in_scope
url_in_scope(cfg, u) ==
  LET excluded_url_regex_list ==
        IF cfg.excluded_url_regex = None THEN NoneList
        ELSE SomeList(<<cfg.excluded_url_regex>>)
  IN filter_url(u, cfg.included_fqdn_regex, NoneList, cfg.included_url_regex,
                excluded_url_regex_list)

\* the alternatives of URL_ASSET_REGEX
AssetExtensions ==
  { <<"j","s">>, <<"c","s","s">>, <<"p","n","g">>, <<"j","p","g">>,
    <<"j","p","e","g">>, <<"w","o","f","f","2">>, <<"s","v","g">>, <<"p","d","f">> }

\* PlaywrightSpider.url_is_asset:
\*   re.match(r'^http(.*)\.(js|css|png|jpg|jpeg|woff2|svg|pdf)(\?.*|)$', url)
url_is_asset(u) ==
  \E ext \in AssetExtensions :
    \/ FullMatch(<<"h","t","t","p", ANY, ".">> \o ext, u)
    \/ FullMatch(<<"h","t","t","p", ANY, ".">> \o ext \o <<"?", ANY>>, u)

(***************************************************************************)
(* The urls of the model                                                   *)
(***************************************************************************)

HTTP == <<"h","t","t","p",":","/","/">>

U_root   == HTTP \o <<"h","/">>                              \* http://h/
U_bare   == HTTP \o <<"H">>                                  \* http://H
U_a      == HTTP \o <<"h","/","a">>                          \* http://h/a
U_a_x1y1 == HTTP \o <<"h","/","a","?","x","=","1","&","y","=","1">>
U_a_y1x1 == HTTP \o <<"h","/","a","?","y","=","1","&","x","=","1">>
U_a_x2   == HTTP \o <<"h","/","a","?","x","=","2">>
U_frag   == HTTP \o <<"h","/","#","/","r">>                  \* http://h/#/r
U_js     == HTTP \o <<"h","/","a",".","j","s">>              \* http://h/a.js
U_js_q   == HTTP \o <<"h","/","a",".","j","s","?","x","=","1">>
U_ext_js == HTTP \o <<"e","/","a",".","j","s">>              \* http://e/a.js
U_ext    == HTTP \o <<"e","/">>                              \* http://e/
U_ftp    == <<"f","t","p",":","/","/","h","/">>              \* ftp://h/
U_port   == HTTP \o <<"a","@","h",":","8","/","a">>          \* http://a@h:8/a
U_user   == HTTP \o <<"h","@","e","/">>                      \* http://h@e/

P_a1 == <<"/","a","/","1">>      \* /a/1
P_a2 == <<"/","a","/","2">>      \* /a/2
P_b1 == <<"/","b","/","1">>      \* /b/1
P_a  == <<"/","a">>              \* /a
P_ab == <<"/","a","b">>          \* /ab

\* the strings the frontier on its own is called with
QueueValues == {P_a1, P_a2, P_b1, P_a, P_ab}

\* the raw urls that _enqueue_url is called with
RawUrls == {U_root, U_bare, U_a, U_a_y1x1, U_a_x2, U_js, U_js_q, U_ext_js, U_ftp}

\* the raw urls that the seeds and the page links of a crawl are drawn from
CrawlUrls == {U_bare, U_a, U_a_x2, U_js, U_ftp}

\* the urls a navigation can end on, other than the url that was opened
RedirectUrls == {U_ext}

\* bounds of the model
MaxSeeds == 2
MaxLinks == 2
MaxUrlsPerBaseUrl == 2
MaxUrlCount == 3

\* the url a call _enqueue_url(raw) is about: the canonical form that the
\* method computes, raw itself when the method does not canonicalize it
Offered(raw) ==
  IF StartsWith(raw, <<"h","t","t","p">>) THEN canonicalize_url(raw) ELSE raw

(***************************************************************************)
(* pygtrie.StringTrie as PrefixOptimizedSingleVisitQueue uses it           *)
(***************************************************************************)

\* StringTrie._path_from_key: a key is split at the separator "/"
PathFromKey(key) == Split(key, "/")

\* StringTrie._key_from_path
KeyFromPath(path) == Join(path, "/")

\* trie.longest_prefix(string)[0]: the key of the deepest node on the path of
\* string that holds a value, None when no node on the path holds one
LongestPrefix(t, string) ==
  With(PathFromKey(string), LAMBDA path :
  With({n \in 1..Len(path) : SubSeq(path, 1, n) \in t}, LAMBDA hits :
    IF hits = {} THEN None
    ELSE With(SubSeq(path, 1, Max(hits)), LAMBDA deepest : KeyFromPath(deepest))))

\* PrefixOptimizedSingleVisitQueue.prioritization_fn
prioritization_fn(t, string) ==
  With(LongestPrefix(t, string), LAMBDA longest_prefix :
    IF longest_prefix = None THEN 0 ELSE Len(longest_prefix))

\* the loop of PrefixOptimizedSingleVisitQueue.pop_from_queue:
\*   for i in range(len(value)): self.trie[value[:i]] = value
TrieInsertPrefixes(t, value) ==
  t \cup {PathFromKey(key) : key \in {SubSeq(value, 1, i) : i \in 0..(Len(value) - 1)}}

(***************************************************************************)
(* SingleVisitQueue                                                        *)
(***************************************************************************)

\* the frontier as a value: q.queue, q.has_ever_been_enqueued, q.trie
Frontier == [queue |-> queue, has_ever_been_enqueued |-> has_ever_been_enqueued, trie |-> trie]

\* SingleVisitQueue.add_to_queue without the has_ever_been_enqueued test
add_to_queue_always(q, value) ==
  [q EXCEPT !.has_ever_been_enqueued = @ \cup {value},
            !.queue = @ \cup {value}]

\* SingleVisitQueue.add_to_queue: the queue after the call
add_to_queue(q, value) ==
  IF value \in q.has_ever_been_enqueued
  THEN q
  ELSE [q EXCEPT !.has_ever_been_enqueued = @ \cup {value},
                 !.queue = @ \cup {value}]

\* set.pop() in place of min(): any element of the queue
MinCandidates_any(q) == q.queue

\* min(self.queue, key=prioritization_fn): the key is computed once for each
\* element, and the set is iterated in an arbitrary order, so any element of
\* minimal key can be the result
MinCandidates(q) ==
  With([v \in q.queue |-> prioritization_fn(q.trie, v)], LAMBDA key :
    {v \in q.queue : \A w \in q.queue : key[v] <= key[w]})

\* pop_from_queue that leaves the value in the queue
pop_from_queue_keep(q, value) ==
  [q EXCEPT !.trie = TrieInsertPrefixes(@, value)]

\* PrefixOptimizedSingleVisitQueue.pop_from_queue returning value: the queue after
pop_from_queue(q, value) ==
  [q EXCEPT !.queue = @ \ {value},
            !.trie = TrieInsertPrefixes(@, value)]

(***************************************************************************)
(* The page model of the action sequence explorer                          *)
(***************************************************************************)

\* the url the explorer is run on, and the url a navigating click ends on
PageUrl == "http://site.test/app"
NextUrl == "http://site.test/next"
BlankUrl == "about:blank"

MoreUrl == "http://site.test/more"
LogoUrl == "http://site.test/logo.png"

\* The elements the pages can show, in document order. The page at PageUrl
\* loads with the buttons 1 and 5 and the anchor 7. Clicking the button 1
\* reveals the buttons 2 and 6, which have the same text, and the text input
\* 3; clicking the button 2 reveals the button 4, whose text is that of the
\* button 1; clicking the button 5 navigates to NextUrl. The page at NextUrl
\* shows the anchor 8, the button 9 and the image 10.
DomOrder == <<1, 2, 3, 4, 5, 6, 7, 8, 9, 10>>
ElementIds == {DomOrder[i] : i \in 1..Len(DomOrder)}

\* an element: href and src are absolute urls, "" where the element has none
HtmlElement(tag, text, outer_html, reveals, navigates, href, src) ==
  [tag |-> tag, text |-> text, outer_html |-> outer_html, reveals |-> reveals,
   navigates |-> navigates, href |-> href, src |-> src]

Element ==
  [e \in ElementIds |->
     CASE e = 1 -> HtmlElement("BUTTON", "a", "<button id=1>a</button>", {2, 3, 6}, FALSE, "", "")
       [] e = 2 -> HtmlElement("BUTTON", "b", "<button id=2>b</button>", {4}, FALSE, "", "")
       [] e = 3 -> HtmlElement("INPUT", "", "<input id=3>", {}, FALSE, "", "")
       [] e = 4 -> HtmlElement("BUTTON", "a", "<button id=4>a</button>", {}, FALSE, "", "")
       [] e = 5 -> HtmlElement("BUTTON", "l", "<button id=5>l</button>", {}, TRUE, "", "")
       [] e = 6 -> HtmlElement("BUTTON", "b", "<button id=6>b</button>", {}, FALSE, "", "")
       [] e = 7 -> HtmlElement("A", "n", "<a id=7 href=/next>n</a>", {}, TRUE, NextUrl, "")
       [] e = 8 -> HtmlElement("A", "m", "<a id=8 href=/more>m</a>", {}, TRUE, MoreUrl, "")
       [] e = 9 -> HtmlElement("BUTTON", "m", "<button id=9>m</button>", {}, FALSE, "", "")
       [] e = 10 -> HtmlElement("IMG", "", "<img id=10 src=/logo.png>", {}, FALSE, "", LogoUrl)]

\* the elements of the page at PageUrl when it has loaded
InitialElements == {1, 5, 7}

\* the elements of a page when it has loaded
LoadedElements(u) ==
  IF u = PageUrl THEN InitialElements ELSE IF u = NextUrl THEN {8, 9, 10} ELSE {}

\* a page of the browser: its url, the elements on it, whether it is open,
\* and (history) the exploration branches that have acted on it
Page(u, elements, acted_by) ==
  [url |-> u, elements |-> elements, open |-> TRUE, acted_by |-> acted_by]

\* page.goto(url) and page.reload() of the page model
Goto(page, u, n) ==
  Page(u, LoadedElements(u), page.acted_by \cup {n})

\* locator.click() and locator.focus() with page.press('body', 'Enter')
Click(page, e, n) ==
  IF Element[e].navigates
  THEN Page(NextUrl, LoadedElements(NextUrl), page.acted_by \cup {n})
  ELSE Page(page.url, page.elements \cup Element[e].reveals, page.acted_by \cup {n})

\* page.close()
Close(page) == [page EXCEPT !.open = FALSE, !.url = BlankUrl, !.elements = {}]

\* get_signature: GET_SIGNATURE_JAVASCRIPT evaluated on an element without
\* role, src and images
get_signature(e) ==
  [tag |-> Element[e].tag, role |-> "null", text |-> Element[e].text,
   src |-> IF Element[e].tag = "IMG" THEN Element[e].src ELSE "undefined", image |-> ""]

\* get_session_signature: the outerHTML of the element
get_session_signature(e) == Element[e].outer_html

\* set(get_session_signatures(page.locator('*').all()))
SessionSignatureSet(page) == {get_session_signature(e) : e \in page.elements}

\* get_text_input_field_list: page.locator("textarea, input")
get_text_input_field_list(page) ==
  {e \in page.elements : Element[e].tag \in {"TEXTAREA", "INPUT"}}

\* _locator_is_navigable: the element is an anchor or has a href (no element
\* of the page model lies inside an anchor)
locator_is_navigable(e) == Element[e].tag = "A" \/ Element[e].href # ""

\* get_interactable_locators_from_page, raw_clickable_locator_list: the
\* elements for which _locator_is_interactable holds
raw_clickable_locator_list(page) ==
  {e \in page.elements : Element[e].tag \in {"A", "BUTTON", "SELECT", "TEXTAREA", "INPUT"}}

\* get_interactable_locators_from_page: the elements with an interactable tag
\* that are not navigable (all elements of the page model are visible)
get_interactable_locators_from_page(page) ==
  {e \in raw_clickable_locator_list(page) : ~locator_is_navigable(e)}

\* get_href_links_from_page: the hrefs of the anchors, made absolute
get_href_links_from_page(page) ==
  {Element[e].href : e \in {x \in page.elements : Element[x].tag = "A" /\ Element[x].href # ""}}

\* get_image_links_from_page: the srcs of the images, made absolute
get_image_links_from_page(page) ==
  {Element[e].src : e \in {x \in page.elements : Element[x].tag = "IMG" /\ Element[x].src # ""}}

\* SignatureHandle
SignatureHandle(kind, signature) ==
  [kind |-> kind, signature |-> signature, inject_random_text_in_all_inputs |-> TRUE]

\* SignatureSequence
SignatureSequence(signature_sequence) ==
  [signature_sequence |-> signature_sequence, required_signatures |-> {}]

(***************************************************************************)
(* dynamic_spider_helpers.py: replaying a signature sequence on a page and *)
(* finding the elements it reveals                                         *)
(***************************************************************************)

\* the elements whose signature is in signature_set, excluded or not
get_locators_from_signature_set_no_exclusion(page, signature_set, excluded_session_signature_set) ==
  {e \in page.elements : get_signature(e) \in signature_set}

\* get_locators_from_signature_set: the elements of the page whose signature
\* is in signature_set and whose session signature is not excluded
get_locators_from_signature_set(page, signature_set, excluded_session_signature_set) ==
  {e \in page.elements :
     /\ get_signature(e) \in signature_set
     /\ get_session_signature(e) \notin excluded_session_signature_set}

\* the elements whose signatures get_signatures_from_page reports among
\* locators: all of them when the excluded set is empty, else those whose
\* session signature is not excluded
Included(locators, excluded_session_signature_set) ==
  IF excluded_session_signature_set # {}
  THEN {e \in locators : get_session_signature(e) \notin excluded_session_signature_set}
  ELSE locators

\* get_signatures_from_page
get_signatures_from_page(page, excluded_session_signature_set) ==
  With(get_text_input_field_list(page), LAMBDA text_input_field_locators :
  With(get_interactable_locators_from_page(page), LAMBDA interactable_locators :
    [interactable_signatures |->
       {get_signature(e) : e \in Included(interactable_locators, excluded_session_signature_set)},
     text_input_field_signatures |->
       {get_signature(e) : e \in Included(text_input_field_locators, excluded_session_signature_set)},
     excluded_signatures |->
       {get_signature(e) : e \in (interactable_locators \cup text_input_field_locators)
           \ Included(interactable_locators \cup text_input_field_locators,
                      excluded_session_signature_set)}]))

\* child sequences whose new handle is always a Click
DiscoveredSignatureSequences_all_click(signature_sequence, found) ==
  {[signature_sequence EXCEPT !.signature_sequence = Append(@, signature_handle)] :
     signature_handle \in
       {SignatureHandle("click", sig) :
          sig \in found.interactable_signatures \cup found.text_input_field_signatures}}

\* click_signatures_in_sequence_and_find_new_signatures, lines 421-440: the
\* child sequences, one per signature found
DiscoveredSignatureSequences(signature_sequence, found) ==
  {[signature_sequence EXCEPT !.signature_sequence = Append(@, signature_handle)] :
     signature_handle \in
       {SignatureHandle("click", sig) : sig \in found.interactable_signatures}
         \cup {SignatureHandle("submit", sig) : sig \in found.text_input_field_signatures}}

\* the signature of a button with the given text
ButtonSignature(text) ==
  [tag |-> "BUTTON", role |-> "null", text |-> text, src |-> "undefined", image |-> ""]

\* bound of the explorer: the branches the caller starts
MaxBranches == 2

\* the signature of the text input of the page model
InputSignature ==
  [tag |-> "INPUT", role |-> "null", text |-> "", src |-> "undefined", image |-> ""]

\* the sequences the functions are called with: the buttons of the loaded
\* page, the elements that the button with the text "a" reveals, the button
\* with the text "a" that the button with the text "b" reveals, a signature
\* that no element has, and that signature followed by a button; one of
\* them with a required signature
StartingSequences ==
  {SignatureSequence(<<SignatureHandle("click", ButtonSignature("a"))>>),
   [SignatureSequence(<<SignatureHandle("click", ButtonSignature("a"))>>)
      EXCEPT !.required_signatures = {ButtonSignature("a")}],
   SignatureSequence(<<SignatureHandle("click", ButtonSignature("l"))>>),
   SignatureSequence(<<SignatureHandle("click", ButtonSignature("a")),
                       SignatureHandle("click", ButtonSignature("b"))>>),
   SignatureSequence(<<SignatureHandle("click", ButtonSignature("a")),
                       SignatureHandle("submit", InputSignature)>>),
   SignatureSequence(<<SignatureHandle("click", ButtonSignature("a")),
                       SignatureHandle("click", ButtonSignature("b")),
                       SignatureHandle("click", ButtonSignature("a"))>>),
   SignatureSequence(<<SignatureHandle("click", ButtonSignature("x"))>>),
   SignatureSequence(<<SignatureHandle("click", ButtonSignature("x")),
                       SignatureHandle("click", ButtonSignature("a"))>>)}

\* the values of max_signature_sequence_length that
\* click_signatures_in_sequence_and_find_new_signatures is called with
NoLength == 0 - 1
MaxSignatureSequenceLengths == {NoLength, 1, 2}

NoPage == 0 - 1
BasePage == 0

\* Optional values that are None: a BrowserUrlVisit, an error message, the
\* SignatureSequenceActionResults of a branch; and the outcome of a call that
\* raised to its caller
NoBrowserUrlVisit == [starting_url |-> "", ending_url |-> ""]
NoError == ""
NoResults ==
  [status |-> "None", discovered_signature_sequence_list |-> {},
   browser_url_visit |-> NoBrowserUrlVisit, discovered_links_set |-> {}]
Raised == [NoResults EXCEPT !.status = "raised"]

NoBranch ==
  [n |-> 0, signature_sequence |-> SignatureSequence(<<>>), direct |-> FALSE,
   max_signature_sequence_length |-> NoLength, page |-> NoPage, pc |-> "idle",
   i |-> 0, starting_url |-> "", initial_session_signature_set |-> {},
   excluded_session_signature_set |-> {}, browser_url_visit |-> NoBrowserUrlVisit,
   error |-> NoError, results |-> NoResults, outcomes |-> <<>>,
   present_before |-> {}, sources |-> {}, acted |-> <<>>, snapshots |-> <<>>,
   discovery |-> [url |-> "", elements |-> {}]]

NoReturn == [results |-> NoResults, branch |-> NoBranch]

\* the asyncio.gather calls and the awaited loops of get_signatures_from_page
\* with fill_textboxes, in the order of the code: each issues calls against
\* elements of the page. The two get_session_signatures loops run when the
\* excluded set is not empty.
EvaluationSteps ==
  <<"safe_fill", "get_signatures(text_input_field_locators)",
    "_locator_is_interactable", "get_outer_html_list_from_locator_list",
    "is_visible", "_locator_is_navigable", "get_signatures(interactable_locators)",
    "get_session_signatures(text_input_field_locators)",
    "get_session_signatures(interactable_locators)">>

\* the steps that hand their calls to asyncio.gather; the others await each
\* call before they make the next
Gathered ==
  {"safe_fill", "_locator_is_interactable", "get_outer_html_list_from_locator_list",
   "is_visible", "_locator_is_navigable"}

\* the elements a step issues its calls against (in the page model every
\* fill succeeds, no two elements share their outerHTML and every element is
\* visible)
StepLocators(step, elements) ==
  IF step \in {"safe_fill", "get_signatures(text_input_field_locators)",
               "get_session_signatures(text_input_field_locators)"}
  THEN get_text_input_field_list([elements |-> elements])
  ELSE IF step = "_locator_is_interactable"
  THEN elements
  ELSE IF step \in {"get_outer_html_list_from_locator_list", "is_visible",
                    "_locator_is_navigable"}
  THEN raw_clickable_locator_list([elements |-> elements])
  ELSE get_interactable_locators_from_page([elements |-> elements])

\* the calls one coroutine of a step makes against its element, one after
\* the other: _locator_is_interactable evaluates tagName and then role
StepCalls(step) == IF step = "_locator_is_interactable" THEN 2 ELSE 1

\* get_signatures_from_page is not running
NoEvaluation ==
  [pc |-> 0, elements |-> {}, excluded_session_signature_set |-> {},
   pending |-> {}, in_flight |-> {}, calls_left |-> [e \in ElementIds |-> 0],
   returned |-> FALSE]

\* a caller holds no visit record and has made no call
NoContext ==
  [browser_url_visit |-> {}, api |-> "", result |-> [status |-> "", content |-> {}],
   call |-> {}, replayed |-> {}]

\* reload_url_until_signatures_appear_and_get_signatures has not been called.
\* An Optional argument is a set: empty for None, else the one value.
NoReload ==
  [pc |-> "idle", caller |-> "", num_reloads |-> 0, min_elements |-> {},
   required_signatures |-> {}, required_signatures_regex |-> {}, iterations |-> 0,
   reloads |-> 0, observed |-> <<>>, raised |-> "", returned |-> {},
   branch_result |-> ""]

\* the RateLimiter has not been constructed
NoRateLimiter ==
  [constructed |-> FALSE, max_requests_per_period |-> 0, window_size_in_minutes |-> 0,
   request_logs |-> <<>>, current_time |-> 0, calls |-> <<>>]

\* no exploration has been started: the page manager of the caller has the
\* page under audit open
NoExploration ==
  /\ pages = (BasePage :> Page(PageUrl, InitialElements, {}))
  /\ branch = NoBranch
  /\ returned = NoReturn
  /\ branches = 0
  /\ evaluation = NoEvaluation
  /\ context = NoContext
  /\ reload = NoReload
  /\ rate_limiter = NoRateLimiter

(***************************************************************************)
(* PlaywrightSpider                                                        *)
(***************************************************************************)

\* the constructor arguments the runs of the model are made with
Configs ==
  [included_fqdn_regex : {<<"h">>},
   included_url_regex : {None},
   excluded_url_regex : {None},
   max_urls_per_base_url : 1..MaxUrlsPerBaseUrl,
   max_url_count : 1..MaxUrlCount]

\* the fields of the spider that _enqueue_url reads and writes
Spider ==
  [q |-> Frontier,
   base |-> enqueued_base_url_to_parameterized_url_set,
   skipped |-> skipped_urls,
   asset |-> asset_urls]

\* defaultdict(set).__getitem__: reading a missing key creates it
Touch(m, k) == IF k \in DOMAIN m THEN m ELSE m @@ (k :> {})

\* PlaywrightSpider._enqueue_url that puts an accepted url in the queue without
\* asking the queue whether it was enqueued before
enqueue_url_requeue(cfg, s, raw) ==
  IF ~StartsWith(raw, <<"h","t","t","p">>)
  THEN [s EXCEPT !.skipped = @ \cup {raw}]
  ELSE
    With(canonicalize_url(raw), LAMBDA u :
    With(get_base_url_from_url(u), LAMBDA base_url :
    With(Touch(s.base, base_url), LAMBDA touched :
       IF ~url_in_scope(cfg, u)
       THEN [s EXCEPT !.skipped = @ \cup {u}]
       ELSE IF url_is_asset(u)
       THEN [s EXCEPT !.asset = @ \cup {u}]
       ELSE IF Cardinality(touched[base_url]) >= cfg.max_urls_per_base_url
       THEN [s EXCEPT !.base = touched, !.skipped = @ \cup {u}]
       ELSE [s EXCEPT !.base = [touched EXCEPT ![base_url] = @ \cup {u}],
                      !.q = add_to_queue_always(s.q, u)])))

\* PlaywrightSpider._enqueue_url without the asset test
enqueue_url_no_asset_test(cfg, s, raw) ==
  IF ~StartsWith(raw, <<"h","t","t","p">>)
  THEN [s EXCEPT !.skipped = @ \cup {raw}]
  ELSE
    With(canonicalize_url(raw), LAMBDA u :
    With(get_base_url_from_url(u), LAMBDA base_url :
    With(Touch(s.base, base_url), LAMBDA touched :
       IF ~url_in_scope(cfg, u)
       THEN [s EXCEPT !.skipped = @ \cup {u}]
       ELSE IF Cardinality(touched[base_url]) >= cfg.max_urls_per_base_url
       THEN [s EXCEPT !.base = touched, !.skipped = @ \cup {u}]
       ELSE [s EXCEPT !.base = [touched EXCEPT ![base_url] = @ \cup {u}],
                      !.q = add_to_queue(s.q, u)])))

\* PlaywrightSpider._enqueue_url without the cap on the urls of one base url
enqueue_url_uncapped(cfg, s, raw) ==
  IF ~StartsWith(raw, <<"h","t","t","p">>)
  THEN [s EXCEPT !.skipped = @ \cup {raw}]
  ELSE
    With(canonicalize_url(raw), LAMBDA u :
    With(get_base_url_from_url(u), LAMBDA base_url :
    With(Touch(s.base, base_url), LAMBDA touched :
       IF ~url_in_scope(cfg, u)
       THEN [s EXCEPT !.skipped = @ \cup {u}]
       ELSE IF url_is_asset(u)
       THEN [s EXCEPT !.asset = @ \cup {u}]
       ELSE [s EXCEPT !.base = [touched EXCEPT ![base_url] = @ \cup {u}],
                      !.q = add_to_queue(s.q, u)])))

\* PlaywrightSpider._enqueue_url whose cap test lets one more url per base
\* url through
enqueue_url_cap_off_by_one(cfg, s, raw) ==
  IF ~StartsWith(raw, <<"h","t","t","p">>)
  THEN [s EXCEPT !.skipped = @ \cup {raw}]
  ELSE
    With(canonicalize_url(raw), LAMBDA u :
    With(get_base_url_from_url(u), LAMBDA base_url :
    With(Touch(s.base, base_url), LAMBDA touched :
       IF ~url_in_scope(cfg, u)
       THEN [s EXCEPT !.skipped = @ \cup {u}]
       ELSE IF url_is_asset(u)
       THEN [s EXCEPT !.asset = @ \cup {u}]
       ELSE IF Cardinality(touched[base_url]) > cfg.max_urls_per_base_url
       THEN [s EXCEPT !.base = touched, !.skipped = @ \cup {u}]
       ELSE [s EXCEPT !.base = [touched EXCEPT ![base_url] = @ \cup {u}],
                      !.q = add_to_queue(s.q, u)])))

\* PlaywrightSpider._enqueue_url: the spider after the call
enqueue_url(cfg, s, raw) ==
  IF ~StartsWith(raw, <<"h","t","t","p">>)
  THEN [s EXCEPT !.skipped = @ \cup {raw}]
  ELSE
    With(canonicalize_url(raw), LAMBDA u :
    With(get_base_url_from_url(u), LAMBDA base_url :
    With(Touch(s.base, base_url), LAMBDA touched :
       IF ~url_in_scope(cfg, u)
       THEN [s EXCEPT !.skipped = @ \cup {u}]
       ELSE IF url_is_asset(u)
       THEN [s EXCEPT !.asset = @ \cup {u}]
       ELSE IF Cardinality(touched[base_url]) >= cfg.max_urls_per_base_url
       THEN [s EXCEPT !.base = touched, !.skipped = @ \cup {u}]
       ELSE [s EXCEPT !.base = [touched EXCEPT ![base_url] = @ \cup {u}],
                      !.q = add_to_queue(s.q, u)])))

\* writes a Spider value back to the variables
SetSpider(s) ==
  /\ queue' = s.q.queue
  /\ has_ever_been_enqueued' = s.q.has_ever_been_enqueued
  /\ trie' = s.q.trie
  /\ enqueued_base_url_to_parameterized_url_set' = s.base
  /\ skipped_urls' = s.skipped
  /\ asset_urls' = s.asset

NoUrl == None
NoVisitedUrl == [url |-> None, ending_url |-> None]
NoScopeCall == [url |-> None, result |-> FALSE]
EmptyDict == [k \in {} |-> {}]

\* the spider as PlaywrightSpider.__init__ leaves it
Constructed ==
  /\ queue = {}
  /\ has_ever_been_enqueued = {}
  /\ trie = {}
  /\ pop_log = <<>>
  /\ enqueued_base_url_to_parameterized_url_set = EmptyDict
  /\ visited_urls = EmptyDict
  /\ skipped_urls = {}
  /\ asset_urls = {}
  /\ url = NoUrl
  /\ seeded = 0
  /\ iterated = {}
  /\ url_on_page = None
  /\ offered = {}
  /\ visited_url = NoVisitedUrl
  /\ failed_urls = {}
  /\ scope_call = NoScopeCall
  /\ NoExploration

Init ==
  /\ Constructed
  /\ config \in Configs
  /\ pc = "seeding"

\* the while loop of run() without the max_url_count test
LoopCondition_no_cap == queue # {}

\* the while loop of run() entered when max_url_count is reached
LoopCondition_at_cap ==
  queue # {} /\ Cardinality(has_ever_been_enqueued) <= config.max_url_count

\* the condition of the while loop of run()
LoopCondition ==
  queue # {} /\ Cardinality(has_ever_been_enqueued) < config.max_url_count

\* run(): one iteration of "for url in url_list: self._enqueue_url(url=url)",
\* raw being the next element of url_list
SeedEnqueue(raw) ==
  /\ pc = "seeding"
  /\ seeded < MaxSeeds
  /\ SetSpider(enqueue_url(config, Spider, raw))
  /\ seeded' = seeded + 1
  /\ url_on_page' = raw
  /\ offered' = offered \cup {Offered(raw)}
  /\ UNCHANGED <<pop_log, visited_urls, config, pc, url, iterated, visited_url,
                 failed_urls, scope_call, automation_vars, api_vars>>

\* run(): url_list is exhausted, the while loop is entered
SeedsDone ==
  /\ pc = "seeding"
  /\ pc' = "loop"
  /\ url_on_page' = None
  /\ UNCHANGED <<queue, has_ever_been_enqueued, trie, pop_log,
                 enqueued_base_url_to_parameterized_url_set, visited_urls,
                 skipped_urls, asset_urls, config, url, seeded, iterated,
                 visited_url, failed_urls, scope_call, automation_vars, api_vars,
                 offered>>

\* run(): the loop condition holds; pop_from_queue, its two assertions, then
\* the guard "if url in self.visited_urls: raise ValueError"
Pop ==
  /\ pc = "loop"
  /\ LoopCondition
  /\ \E value \in MinCandidates(Frontier) :
       LET q == pop_from_queue(Frontier, value)
       IN /\ queue' = q.queue
          /\ trie' = q.trie
          /\ pop_log' = Append(pop_log, [value |-> value, pending |-> queue])
          /\ url' = value
          /\ pc' = IF value \in q.queue \/ value \notin has_ever_been_enqueued
                   THEN "assertion failed"
                   ELSE IF value \in DOMAIN visited_urls
                   THEN "raised already visited"
                   ELSE "visit"
  /\ UNCHANGED <<has_ever_been_enqueued, enqueued_base_url_to_parameterized_url_set,
                 visited_urls, skipped_urls, asset_urls, config, seeded, iterated,
                 visited_url, failed_urls, scope_call, automation_vars, api_vars,
                 url_on_page, offered>>

\* _visit() that puts the url back in the queue when get_visited_url raises
VisitRaises_requeue(cause) ==
  /\ pc = "visit"
  /\ failed_urls' = failed_urls \cup {[url |-> url, cause |-> cause]}
  /\ queue' = queue \cup {url}
  /\ pc' = "loop"
  /\ UNCHANGED <<has_ever_been_enqueued, trie, pop_log,
                 enqueued_base_url_to_parameterized_url_set, visited_urls,
                 skipped_urls, asset_urls, config, url, seeded, iterated,
                 visited_url, scope_call, automation_vars, api_vars, url_on_page, offered>>

\* _visit() that stores a visit record with no page when get_visited_url raises
VisitRaises_recorded(cause) ==
  /\ pc = "visit"
  /\ failed_urls' = failed_urls \cup {[url |-> url, cause |-> cause]}
  /\ visited_urls' = (url :> [url |-> url, ending_url |-> None]) @@ visited_urls
  /\ pc' = "loop"
  /\ UNCHANGED <<queue, has_ever_been_enqueued, trie, pop_log,
                 enqueued_base_url_to_parameterized_url_set,
                 skipped_urls, asset_urls, config, url, seeded, iterated,
                 visited_url, scope_call, automation_vars, api_vars, url_on_page, offered>>

\* _visit(): get_visited_url raises (open_url failed and unwrap() raised, or
\* the harvest of the page raised); the except clause prints the error
VisitRaises(cause) ==
  /\ pc = "visit"
  /\ failed_urls' = failed_urls \cup {[url |-> url, cause |-> cause]}
  /\ pc' = "loop"
  /\ UNCHANGED <<queue, has_ever_been_enqueued, trie, pop_log,
                 enqueued_base_url_to_parameterized_url_set, visited_urls,
                 skipped_urls, asset_urls, config, url, seeded, iterated,
                 visited_url, scope_call, automation_vars, api_vars,
                 url_on_page, offered>>

\* get_visited_url() that harvests the links of the page the navigation ended
\* on although that page is out of scope
VisitOutOfScope_harvest(ending_url) ==
  /\ pc = "visit"
  /\ ~url_in_scope(config, ending_url)
  /\ skipped_urls' = skipped_urls \cup {ending_url}
  /\ visited_url' = [url |-> url, ending_url |-> ending_url]
  /\ iterated' = {}
  /\ pc' = "harvest"
  /\ UNCHANGED <<queue, has_ever_been_enqueued, trie, pop_log,
                 enqueued_base_url_to_parameterized_url_set, visited_urls,
                 asset_urls, config, url, seeded, failed_urls, scope_call, automation_vars, api_vars,
                 url_on_page, offered>>

\* _visit(): the navigation ended on ending_url, which is out of scope;
\* get_visited_url records it as skipped and returns a VisitedUrl without
\* urls_on_page, which _visit stores
VisitOutOfScope(ending_url) ==
  /\ pc = "visit"
  /\ ~url_in_scope(config, ending_url)
  /\ skipped_urls' = skipped_urls \cup {ending_url}
  /\ LET v == [url |-> url, ending_url |-> ending_url]
     IN /\ visited_url' = v
        /\ IF v.url # url
           THEN pc' = "raised url mismatch" /\ UNCHANGED visited_urls
           ELSE pc' = "loop" /\ visited_urls' = (url :> v) @@ visited_urls
  /\ UNCHANGED <<queue, has_ever_been_enqueued, trie, pop_log,
                 enqueued_base_url_to_parameterized_url_set, asset_urls, config,
                 url, seeded, iterated, failed_urls, scope_call, automation_vars, api_vars,
                 url_on_page, offered>>

\* _visit(): get_visited_url returned a VisitedUrl with a list urls_on_page
VisitHarvest(ending_url) ==
  /\ pc = "visit"
  /\ url_in_scope(config, ending_url)
  /\ visited_url' = [url |-> url, ending_url |-> ending_url]
  /\ iterated' = {}
  /\ pc' = "harvest"
  /\ UNCHANGED <<queue, has_ever_been_enqueued, trie, pop_log,
                 enqueued_base_url_to_parameterized_url_set, visited_urls,
                 skipped_urls, asset_urls, config, url, seeded, failed_urls,
                 scope_call, automation_vars, api_vars,
                 url_on_page, offered>>

\* _visit(): one iteration of "for url_on_page in visited_url.urls_on_page",
\* raw being the next element of the list (which was built from a set)
HarvestEnqueue(raw) ==
  /\ pc = "harvest"
  /\ raw \notin iterated
  /\ Cardinality(iterated) < MaxLinks
  /\ SetSpider(enqueue_url(config, Spider, raw))
  /\ iterated' = iterated \cup {raw}
  /\ url_on_page' = raw
  /\ offered' = offered \cup {Offered(raw)}
  /\ UNCHANGED <<pop_log, visited_urls, config, pc, url, seeded, visited_url,
                 failed_urls, scope_call, automation_vars, api_vars>>

\* _visit(): urls_on_page is exhausted; the url check and
\* self.visited_urls[url] = visited_url
VisitStore ==
  /\ pc = "harvest"
  /\ iterated' = {}
  /\ url_on_page' = None
  /\ IF visited_url.url # url
     THEN pc' = "raised url mismatch" /\ UNCHANGED visited_urls
     ELSE pc' = "loop" /\ visited_urls' = (url :> visited_url) @@ visited_urls
  /\ UNCHANGED <<queue, has_ever_been_enqueued, trie, pop_log,
                 enqueued_base_url_to_parameterized_url_set, skipped_urls,
                 asset_urls, config, url, seeded, visited_url, failed_urls,
                 scope_call, automation_vars, api_vars,
                 offered>>

\* run(): the loop condition is false, run returns
Exit ==
  /\ pc = "loop"
  /\ ~LoopCondition
  /\ pc' = "done"
  /\ UNCHANGED <<queue, has_ever_been_enqueued, trie, pop_log,
                 enqueued_base_url_to_parameterized_url_set, visited_urls,
                 skipped_urls, asset_urls, config, url, seeded, iterated,
                 visited_url, failed_urls, scope_call, automation_vars, api_vars,
                 url_on_page, offered>>

Next ==
  \/ \E raw \in CrawlUrls : SeedEnqueue(raw)
  \/ SeedsDone
  \/ Pop
  \/ \E cause \in {"open_url", "harvest"} : VisitRaises(cause)
  \/ \E ending_url \in RedirectUrls : VisitOutOfScope(ending_url)
  \/ VisitHarvest(url)
  \/ \E raw \in CrawlUrls : HarvestEnqueue(raw)
  \/ VisitStore
  \/ Exit

Spec == Init /\ [][Next]_vars

\* _visit(): the call of get_visited_url returns or raises
VisitReturns ==
  \/ \E cause \in {"open_url", "harvest"} : VisitRaises(cause)
  \/ \E ending_url \in RedirectUrls : VisitOutOfScope(ending_url)
  \/ VisitHarvest(url)

\* run() is one coroutine that the event loop resumes: a for-loop over a list
\* ends, the while loop tests its condition and pops or returns, and every
\* awaited browser call returns or raises
FairSpec ==
  /\ Spec
  /\ WF_vars(SeedsDone)
  /\ WF_vars(Pop)
  /\ WF_vars(VisitReturns)
  /\ WF_vars(VisitStore)
  /\ WF_vars(Exit)

(***************************************************************************)
(* The frontier on its own: any sequence of add_to_queue and               *)
(* pop_from_queue calls on one PrefixOptimizedSingleVisitQueue             *)
(***************************************************************************)

\* bound: the number of calls of one run of the frontier
MaxQueueCalls == 7

InitQueue ==
  /\ Constructed
  /\ config = [included_fqdn_regex |-> <<"h">>, included_url_regex |-> None,
               excluded_url_regex |-> None, max_urls_per_base_url |-> 1,
               max_url_count |-> 1]
  /\ pc = "frontier"

\* a call add_to_queue(value)
AddToQueue(value) ==
  /\ pc = "frontier"
  /\ seeded < MaxQueueCalls
  /\ seeded' = seeded + 1
  /\ LET q == add_to_queue(Frontier, value)
     IN /\ queue' = q.queue
        /\ has_ever_been_enqueued' = q.has_ever_been_enqueued
        /\ trie' = q.trie
  /\ UNCHANGED <<pop_log, enqueued_base_url_to_parameterized_url_set, visited_urls,
                 skipped_urls, asset_urls, config, pc, url, iterated, visited_url,
                 failed_urls, scope_call, automation_vars, api_vars,
                 url_on_page, offered>>

\* a call pop_from_queue() on a non-empty queue
PopFromQueue ==
  /\ pc = "frontier"
  /\ queue # {}
  /\ seeded < MaxQueueCalls
  /\ seeded' = seeded + 1
  /\ \E value \in MinCandidates(Frontier) :
       LET q == pop_from_queue(Frontier, value)
       IN /\ queue' = q.queue
          /\ trie' = q.trie
          /\ pop_log' = Append(pop_log, [value |-> value, pending |-> queue])
  /\ url_on_page' = None
  /\ UNCHANGED <<has_ever_been_enqueued, enqueued_base_url_to_parameterized_url_set,
                 visited_urls, skipped_urls, asset_urls, config, pc, url, iterated,
                 visited_url, failed_urls, scope_call, automation_vars, api_vars, offered>>

NextQueue ==
  \/ \E value \in QueueValues : AddToQueue(value)
  \/ PopFromQueue

SpecQueue == InitQueue /\ [][NextQueue]_vars

(***************************************************************************)
(* _enqueue_url on its own: any sequence of _enqueue_url calls on one       *)
(* spider, with pops of its url_queue in between                           *)
(***************************************************************************)

\* bound: the number of _enqueue_url calls of one run
MaxEnqueueCalls == 4

\* the constructor arguments of these runs; max_url_count is read by run() only
EnqueueConfigs ==
  [included_fqdn_regex : {<<"h">>},
   included_url_regex : {None},
   excluded_url_regex : {None},
   max_urls_per_base_url : 1..MaxUrlsPerBaseUrl,
   max_url_count : {MaxUrlCount}]

InitEnqueue ==
  /\ Constructed
  /\ config \in EnqueueConfigs
  /\ pc = "frontier"

\* a call _enqueue_url(url=raw)
CallEnqueueUrl(raw) ==
  /\ pc = "frontier"
  /\ seeded < MaxEnqueueCalls
  /\ seeded' = seeded + 1
  /\ SetSpider(enqueue_url(config, Spider, raw))
  /\ url_on_page' = raw
  /\ offered' = offered \cup {Offered(raw)}
  /\ UNCHANGED <<pop_log, visited_urls, config, pc, url, iterated, visited_url,
                 failed_urls, scope_call, automation_vars, api_vars>>

NextEnqueue ==
  \/ \E raw \in RawUrls : CallEnqueueUrl(raw)
  \/ PopFromQueue

SpecEnqueue == InitEnqueue /\ [][NextEnqueue]_vars

(***************************************************************************)
(* The scope predicate on its own                                          *)
(***************************************************************************)

\* the urls the predicate is evaluated on
ScopeUrls ==
  {U_root, U_a, U_a_x2, U_frag, U_js, U_js_q, U_ext_js, U_ext, U_port, U_user}

\* the patterns the spider is configured with
ScopeConfigs ==
  [included_fqdn_regex : {<<"h">>, <<ANY, "h">>, <<"e">>},
   included_url_regex : {None, <<ANY, "a", ANY>>, HTTP \o <<"h", "/", ANY>>},
   excluded_url_regex : {None, <<ANY, "2">>, <<ANY, ".", "j", "s">>},
   max_urls_per_base_url : {1},
   max_url_count : {1}]

InitScope ==
  /\ Constructed
  /\ config \in ScopeConfigs
  /\ pc = "scope"

\* a call url_in_scope(url=u)
CallUrlInScope(u) ==
  /\ pc = "scope"
  /\ scope_call' = [url |-> u, result |-> url_in_scope(config, u)]
  /\ UNCHANGED <<queue, has_ever_been_enqueued, trie, pop_log,
                 enqueued_base_url_to_parameterized_url_set, visited_urls,
                 skipped_urls, asset_urls, config, pc, url, seeded, iterated,
                 visited_url, failed_urls,
                 url_on_page, offered,
                 automation_vars, api_vars>>

NextScope == \E u \in ScopeUrls : CallUrlInScope(u)

SpecScope == InitScope /\ [][NextScope]_vars

(***************************************************************************)
(* A crawl of site.test: run() on one seed, with a fixed page model        *)
(***************************************************************************)

SITE == HTTP \o <<"s","i","t","e",".","t","e","s","t">>       \* http://site.test

S_root  == SITE \o <<"/">>
S_login == SITE \o <<"/","l","o","g","i","n">>
S_about == SITE \o <<"/","a","b","o","u","t">>

H_login == <<"/","l","o","g","i","n">>
H_about == <<"/","a","b","o","u","t">>
H_login_ref(n) == H_login \o <<"?","r","e","f","=", n>>

\* the href attributes of the <a> elements of the page at u
Hrefs(u) ==
  IF u = S_root
  THEN {H_login, H_about} \cup {H_login_ref(n) : n \in {"1", "2", "3", "4"}}
  ELSE {}

\* urllib.parse.urljoin(base, ref) for a reference that is an absolute path:
\* the scheme and the netloc of the base, then the reference
urljoin(base, ref) ==
  With(UrlSplit(base), LAMBDA p : p.scheme \o <<":", "/", "/">> \o p.netloc \o ref)

\* get_href_links_from_page for the page at u, as the set urls_on_page
UrlsOnPage(u) == {urljoin(u, ref) : ref \in Hrefs(u)}

\* the spider of the scenario: PlaywrightSpider(included_fqdn_regex=
\* "site\.test", max_urls_per_base_url=3), max_url_count left at its default
ScenarioConfig ==
  [included_fqdn_regex |-> <<"s","i","t","e",".","t","e","s","t">>,
   included_url_regex |-> None,
   excluded_url_regex |-> None,
   max_urls_per_base_url |-> 3,
   max_url_count |-> 1000]

InitScenario ==
  /\ Constructed
  /\ config = ScenarioConfig
  /\ pc = "seeding"

\* run(): "for url in url_list" with url_list = ["http://site.test/"]
ScenarioSeed ==
  /\ seeded = 0
  /\ SeedEnqueue(S_root)

ScenarioSeedsDone ==
  /\ seeded = 1
  /\ SeedsDone

\* _visit(): one iteration over urls_on_page, which was built from a set
ScenarioHarvestEnqueue(raw) ==
  /\ pc = "harvest"
  /\ raw \in UrlsOnPage(url) \ iterated
  /\ SetSpider(enqueue_url(config, Spider, raw))
  /\ iterated' = iterated \cup {raw}
  /\ url_on_page' = raw
  /\ offered' = offered \cup {Offered(raw)}
  /\ UNCHANGED <<pop_log, visited_urls, config, pc, url, seeded, visited_url,
                 failed_urls, scope_call, automation_vars, api_vars>>

\* _visit(): every url of urls_on_page was passed to _enqueue_url
ScenarioStore ==
  /\ iterated = UrlsOnPage(url)
  /\ VisitStore

NextScenario ==
  \/ ScenarioSeed
  \/ ScenarioSeedsDone
  \/ Pop
  \/ VisitHarvest(url)
  \/ \E raw \in UrlsOnPage(S_root) : ScenarioHarvestEnqueue(raw)
  \/ ScenarioStore
  \/ Exit

SpecScenario == InitScenario /\ [][NextScenario]_vars

\* run() is one coroutine: every loop goes on and every visit returns
FairSpecScenario ==
  /\ SpecScenario
  /\ WF_vars(ScenarioSeed)
  /\ WF_vars(ScenarioSeedsDone)
  /\ WF_vars(Pop)
  /\ WF_vars(VisitHarvest(url))
  /\ WF_vars(\E raw \in UrlsOnPage(S_root) : ScenarioHarvestEnqueue(raw))
  /\ WF_vars(ScenarioStore)
  /\ WF_vars(Exit)

(***************************************************************************)
(* Exploration branches:                                                   *)
(* clone_playwright_and_click_signatures_in_sequence_and_find_new_signatures *)
(* called by the explorer, one branch at a time, and                       *)
(* click_signatures_in_sequence_and_find_new_signatures called on its own  *)
(***************************************************************************)

\* the page of the running branch
BranchPage == pages[branch.page]

\* the call of the branch b ends: results goes back to the caller
Return(b, results) ==
  /\ returned' = [results |-> results, branch |-> b]
  /\ branch' = NoBranch

\* the branch function is called with a signature sequence
CallBranch(signature_sequence) ==
  /\ branch.pc = "idle"
  /\ branches < MaxBranches
  /\ branches' = branches + 1
  /\ branch' = [NoBranch EXCEPT !.n = branches + 1,
                                !.signature_sequence = signature_sequence,
                                !.pc = "clone"]
  /\ returned' = NoReturn
  /\ UNCHANGED pages
  /\ UNCHANGED <<crawl_vars, evaluation, context, reload, api_vars>>

\* click_signatures_in_sequence_and_find_new_signatures is called on a page
\* that its caller has cloned and opened at PageUrl
CallDirect(signature_sequence, max_signature_sequence_length) ==
  /\ branch.pc = "idle"
  /\ branches < MaxBranches
  /\ branches' = branches + 1
  /\ LET h == Max(DOMAIN pages) + 1
     IN
       /\ pages' = pages @@ (h :> Page(PageUrl, InitialElements, {}))
       /\ branch' = [NoBranch EXCEPT
                       !.n = branches + 1,
                       !.signature_sequence = signature_sequence,
                       !.direct = TRUE,
                       !.max_signature_sequence_length = max_signature_sequence_length,
                       !.page = h,
                       !.pc = "initial"]
  /\ returned' = NoReturn
  /\ UNCHANGED <<crawl_vars, evaluation, context, reload, api_vars>>

\* PlaywrightPageManagerCloneContext.__aenter__: the clone has a page of its own
Clone ==
  /\ branch.pc = "clone"
  /\ LET h == Max(DOMAIN pages) + 1
     IN
       /\ pages' = pages @@ (h :> Page(BlankUrl, {}, {}))
       /\ branch' = [branch EXCEPT !.page = h, !.pc = "open_url"]
  /\ UNCHANGED <<returned, branches>>
  /\ UNCHANGED <<crawl_vars, evaluation, context, reload, api_vars>>

\* the branch function opening the url on the page manager it was handed
\* instead of on its clone
OpenUrl_on_caller_page ==
  /\ branch.pc = "open_url"
  /\ pages' = [pages EXCEPT ![BasePage] = Goto(@, PageUrl, branch.n)]
  /\ branch' = [branch EXCEPT !.pc = "reload_and_click"]
  /\ UNCHANGED <<returned, branches>>
  /\ UNCHANGED <<crawl_vars, evaluation, context, reload, api_vars>>

\* cloned_playwright_page_manager.open_url(url)
OpenUrl ==
  /\ branch.pc = "open_url"
  /\ pages' = [pages EXCEPT ![branch.page] = Goto(@, PageUrl, branch.n)]
  /\ branch' = [branch EXCEPT !.pc = "reload_and_click"]
  /\ UNCHANGED <<returned, branches>>
  /\ UNCHANGED <<crawl_vars, evaluation, context, reload, api_vars>>

\* cloned_playwright_page_manager.reload_and_click()
ReloadAndClick ==
  /\ branch.pc = "reload_and_click"
  /\ pages' = [pages EXCEPT ![branch.page] = Goto(@, @.url, branch.n)]
  /\ branch' = [branch EXCEPT !.pc = "reload_until"]
  /\ UNCHANGED <<returned, branches>>
  /\ UNCHANGED <<crawl_vars, evaluation, context, reload, api_vars>>

\* reload_url_until_signatures_appear_and_get_signatures: the text inputs are
\* filled and the page is reloaded while it shows fewer than min_elements
\* signatures, at most num_reloads times
ReloadUntilSignaturesAppear ==
  /\ branch.pc = "reload_until"
  /\ pages' = [pages EXCEPT ![branch.page] = Goto(@, @.url, branch.n)]
  /\ branch' = [branch EXCEPT !.pc = "initial"]
  /\ UNCHANGED <<returned, branches>>
  /\ UNCHANGED <<crawl_vars, evaluation, context, reload, api_vars>>

\* click_signatures_in_sequence_and_find_new_signatures, lines 386-389
InitialSnapshot ==
  /\ branch.pc = "initial"
  /\ branch' = [branch EXCEPT
                  !.starting_url = BranchPage.url,
                  !.initial_session_signature_set = SessionSignatureSet(BranchPage),
                  !.i = 1,
                  !.pc = IF Len(branch.signature_sequence.signature_sequence) = 0
                         THEN "discover" ELSE "replay"]
  /\ UNCHANGED <<pages, returned, branches>>
  /\ UNCHANGED <<crawl_vars, evaluation, context, reload, api_vars>>

\* click_signatures_in_sequence: one iteration of the loop over the handles
\* that ends without an exception. take_action_on_signature_handle fills the
\* text inputs, looks for the elements with the signature of the handle that
\* are not excluded, and clicks or submits the first one; when there is none
\* it returns None.
ReplayHandle ==
  /\ branch.pc = "replay"
  /\ LET signature_handle == branch.signature_sequence.signature_sequence[branch.i]
         pre_action_session_signature_set == SessionSignatureSet(BranchPage)
         filled == [BranchPage EXCEPT !.acted_by = @ \cup {branch.n}]
         locator_list ==
           get_locators_from_signature_set(BranchPage, {signature_handle.signature},
                                           branch.excluded_session_signature_set)
         clicked == Click(BranchPage, Min(locator_list), branch.n)
         last == branch.i = Len(branch.signature_sequence.signature_sequence)
     IN
       /\ pages' = [pages EXCEPT ![branch.page] =
                      IF locator_list = {} THEN filled ELSE clicked]
       /\ branch' = [branch EXCEPT
            !.browser_url_visit =
               IF locator_list = {} THEN NoBrowserUrlVisit
               ELSE [starting_url |-> BranchPage.url, ending_url |-> clicked.url],
            !.excluded_session_signature_set = @ \cup pre_action_session_signature_set,
            !.present_before = @ \cup BranchPage.elements,
            !.acted = Append(@, IF locator_list = {} THEN 0 ELSE Min(locator_list)),
            !.snapshots = Append(@, pre_action_session_signature_set),
            !.outcomes = Append(@, IF locator_list = {} THEN "no element"
                                   ELSE signature_handle.kind),
            !.i = @ + 1,
            !.pc = IF last THEN "discover" ELSE "replay"]
  /\ UNCHANGED <<returned, branches>>
  /\ UNCHANGED <<crawl_vars, evaluation, context, reload, api_vars>>

\* click_signatures_in_sequence: get_session_signatures or
\* take_action_on_signature_handle raises; the error is kept and the loop is
\* left
ReplayRaises(cause) ==
  /\ branch.pc = "replay"
  /\ branch' = [branch EXCEPT
                  !.browser_url_visit = NoBrowserUrlVisit,
                  !.error = cause,
                  !.outcomes = Append(@, "raised"),
                  !.pc = "discover"]
  /\ UNCHANGED <<pages, returned, branches>>
  /\ UNCHANGED <<crawl_vars, evaluation, context, reload, api_vars>>

\* the characters of a url of the page model
Characters(u) ==
  With(CASE u = PageUrl -> SITE \o <<"/", "a", "p", "p">>
         [] u = NextUrl -> SITE \o <<"/", "n", "e", "x", "t">>
         [] OTHER -> <<>>,
       LAMBDA chars : {chars[i] : i \in 1..Len(chars)})

\* _get_discovered_links_set: the links of the page, and when there is a
\* visit record, set.update with its ending_url and with the url of the
\* page: update iterates over its argument, so that the characters of the two
\* strings are added
get_discovered_links_set(page, optional_browser_url_visit) ==
  get_href_links_from_page(page) \cup get_image_links_from_page(page)
    \cup (IF optional_browser_url_visit # NoBrowserUrlVisit
          THEN Characters(optional_browser_url_visit.ending_url) \cup Characters(page.url)
          ELSE {})

\* results computed without the test of the page url
Results_ignores_redirect(b, page) ==
  IF b.max_signature_sequence_length # NoLength
  THEN [Raised EXCEPT !.status = "TypeError"]
  ELSE [status |-> "results", discovered_signature_sequence_list |->
          DiscoveredSignatureSequences(
            b.signature_sequence,
            get_signatures_from_page(page, b.initial_session_signature_set)),
        browser_url_visit |-> b.browser_url_visit,
        discovered_links_set |-> get_discovered_links_set(page, b.browser_url_visit)]

\* results that hold no child sequence when the replay ended with an error
Results_abandons_failed_replay(b, page) ==
  IF page.url # b.starting_url \/ b.error # NoError
  THEN [status |-> "results", discovered_signature_sequence_list |-> {},
        browser_url_visit |-> b.browser_url_visit,
        discovered_links_set |-> get_discovered_links_set(page, b.browser_url_visit)]
  ELSE IF b.max_signature_sequence_length # NoLength
  THEN [Raised EXCEPT !.status = "TypeError"]
  ELSE [status |-> "results", discovered_signature_sequence_list |->
          DiscoveredSignatureSequences(
            b.signature_sequence,
            get_signatures_from_page(page, b.initial_session_signature_set)),
        browser_url_visit |-> b.browser_url_visit,
        discovered_links_set |-> get_discovered_links_set(page, b.browser_url_visit)]

\* click_signatures_in_sequence_and_find_new_signatures, lines 404-453: the
\* results of the call; it raises TypeError when len(signature_sequence) is
\* evaluated: SignatureSequence has no __len__
Results(b, page) ==
  IF page.url # b.starting_url
  THEN [status |-> "results", discovered_signature_sequence_list |-> {},
        browser_url_visit |-> b.browser_url_visit,
        discovered_links_set |-> get_discovered_links_set(page, b.browser_url_visit)]
  ELSE IF b.max_signature_sequence_length # NoLength
  THEN [Raised EXCEPT !.status = "TypeError"]
  ELSE [status |-> "results", discovered_signature_sequence_list |->
          DiscoveredSignatureSequences(
            b.signature_sequence,
            get_signatures_from_page(page, b.initial_session_signature_set)),
        browser_url_visit |-> b.browser_url_visit,
        discovered_links_set |-> get_discovered_links_set(page, b.browser_url_visit)]

\* the elements whose signatures the call reports as new
Sources(b, page) ==
  IF page.url # b.starting_url \/ b.max_signature_sequence_length # NoLength
  THEN {}
  ELSE Included(get_interactable_locators_from_page(page)
                  \cup get_text_input_field_list(page),
                b.initial_session_signature_set)

\* click_signatures_in_sequence_and_find_new_signatures after the replay: the
\* links are collected and the new signatures are looked for
Discover ==
  /\ branch.pc = "discover"
  /\ LET results == Results(branch, BranchPage)
         b == [branch EXCEPT !.results = results,
                             !.sources = Sources(branch, BranchPage),
                             !.discovery = [url |-> BranchPage.url,
                                            elements |-> BranchPage.elements],
                             !.pc = "exit"]
     IN
       IF results.status = "TypeError"
       THEN /\ Return(b, IF branch.direct THEN Raised ELSE NoResults)
            /\ pages' = IF branch.direct THEN pages
                        ELSE [pages EXCEPT ![branch.page] = Close(@)]
       ELSE IF branch.direct
       THEN /\ Return(b, results)
            /\ pages' = [pages EXCEPT ![branch.page].acted_by = @ \cup {branch.n}]
       ELSE /\ branch' = b
            /\ pages' = [pages EXCEPT ![branch.page].acted_by = @ \cup {branch.n}]
            /\ UNCHANGED returned
  /\ UNCHANGED branches
  /\ UNCHANGED <<crawl_vars, evaluation, context, reload, api_vars>>

\* PlaywrightPageManagerCloneContext.__aexit__ closes the clone, and the
\* branch function returns the results
Exit_branch ==
  /\ branch.pc = "exit"
  /\ pages' = [pages EXCEPT ![branch.page] = Close(@)]
  /\ Return(branch, branch.results)
  /\ UNCHANGED branches
  /\ UNCHANGED <<crawl_vars, evaluation, context, reload, api_vars>>

\* the branch function without its except clause: the exception reaches the
\* caller
BranchRaises_propagates(cause) ==
  /\ branch.pc \in (IF branch.direct THEN {"initial", "discover"}
                    ELSE {"clone", "open_url", "reload_and_click", "reload_until",
                          "initial", "discover", "exit"})
  /\ pages' = IF branch.direct \/ branch.page = NoPage THEN pages
              ELSE [pages EXCEPT ![branch.page] = Close(@)]
  /\ Return([branch EXCEPT !.error = cause], Raised)
  /\ UNCHANGED branches
  /\ UNCHANGED <<crawl_vars, evaluation, context, reload, api_vars>>

\* a call of the branch raises outside the replay loop. In the branch
\* function the exception leaves the "async with", which closes the clone if
\* there is one, and the except clause makes the result None; a call of
\* click_signatures_in_sequence_and_find_new_signatures on its own raises to
\* its caller.
BranchRaises(cause) ==
  /\ branch.pc \in (IF branch.direct THEN {"initial", "discover"}
                    ELSE {"clone", "open_url", "reload_and_click", "reload_until",
                          "initial", "discover", "exit"})
  /\ pages' = IF branch.direct \/ branch.page = NoPage THEN pages
              ELSE [pages EXCEPT ![branch.page] = Close(@)]
  /\ Return([branch EXCEPT !.error = cause], IF branch.direct THEN Raised ELSE NoResults)
  /\ UNCHANGED branches
  /\ UNCHANGED <<crawl_vars, evaluation, context, reload, api_vars>>

InitExplore ==
  /\ Constructed
  /\ config = ScenarioConfig
  /\ pc = "explorer"

NextExplore ==
  \/ \E signature_sequence \in StartingSequences : CallBranch(signature_sequence)
  \/ \E signature_sequence \in StartingSequences, k \in MaxSignatureSequenceLengths :
       CallDirect(signature_sequence, k)
  \/ Clone
  \/ OpenUrl
  \/ ReloadAndClick
  \/ ReloadUntilSignaturesAppear
  \/ InitialSnapshot
  \/ ReplayHandle
  \/ \E cause \in {"get_session_signatures", "take_action_on_signature_handle"} :
       ReplayRaises(cause)
  \/ Discover
  \/ Exit_branch
  \/ BranchRaises("Exception")

SpecExplore == InitExplore /\ [][NextExplore]_vars

(***************************************************************************)
(* get_signatures_from_page: the calls it has in flight against the        *)
(* elements of one live page                                               *)
(***************************************************************************)

\* the element sets the page at PageUrl shows: as loaded, after the click on
\* the button 1, and after the click on the button 2
PageElementSets ==
  {InitialElements,
   Click(Page(PageUrl, InitialElements, {}), 1, 0).elements,
   Click(Click(Page(PageUrl, InitialElements, {}), 1, 0), 2, 0).elements}

\* the excluded sets get_signatures_from_page is called with: none
\* (reload_url_until_signatures_appear_and_get_signatures) and the session
\* signatures of the page as loaded (discovery)
ExcludedSessionSignatureSets ==
  {{}, SessionSignatureSet(Page(PageUrl, InitialElements, {}))}

\* the step k begins: its calls are still to be made
EnterStep(ev, k) ==
  [ev EXCEPT !.pc = k, !.pending = StepLocators(EvaluationSteps[k], ev.elements)]

\* the last step that runs
LastStep(ev) == IF ev.excluded_session_signature_set = {} THEN 7 ELSE 9

\* get_signatures_from_page(playwright_page_manager, excluded_session_signature_set)
\* is called on a page that shows elements
CallGetSignaturesFromPage(elements, excluded_session_signature_set) ==
  /\ evaluation.pc = 0
  /\ evaluation' = EnterStep([NoEvaluation EXCEPT
                                !.elements = elements,
                                !.excluded_session_signature_set = excluded_session_signature_set],
                             1)
  /\ UNCHANGED <<crawl_vars, explorer_vars, context, reload, api_vars>>

\* the next call of the step is sent to the page: a gathered step sends it
\* whatever is in flight, an awaited loop when the call before has returned;
\* the calls are made in the order of the locator list
StartCall ==
  /\ evaluation.pc > 0
  /\ evaluation.pending # {}
  /\ EvaluationSteps[evaluation.pc] \in Gathered \/ evaluation.in_flight = {}
  /\ LET e == Min(evaluation.pending)
     IN evaluation' = [evaluation EXCEPT
                         !.pending = @ \ {e},
                         !.in_flight = @ \cup {e},
                         !.calls_left[e] = StepCalls(EvaluationSteps[evaluation.pc])]
  /\ UNCHANGED <<crawl_vars, explorer_vars, context, reload, api_vars>>

\* a call in flight returns; a coroutine with a further call to make sends it
\* at once
CallReturns(e) ==
  /\ e \in evaluation.in_flight
  /\ evaluation' = IF evaluation.calls_left[e] > 1
                   THEN [evaluation EXCEPT !.calls_left[e] = @ - 1]
                   ELSE [evaluation EXCEPT !.in_flight = @ \ {e}, !.calls_left[e] = 0]
  /\ UNCHANGED <<crawl_vars, explorer_vars, context, reload, api_vars>>

\* all calls of the step have returned: the next step begins, or
\* get_signatures_from_page returns
StepReturns ==
  /\ evaluation.pc > 0
  /\ evaluation.pending = {}
  /\ evaluation.in_flight = {}
  /\ evaluation' = IF evaluation.pc < LastStep(evaluation)
                   THEN EnterStep(evaluation, evaluation.pc + 1)
                   ELSE [evaluation EXCEPT !.pc = 0, !.returned = TRUE]
  /\ UNCHANGED <<crawl_vars, explorer_vars, context, reload, api_vars>>

InitFingerprint ==
  /\ Constructed
  /\ config = ScenarioConfig
  /\ pc = "get_signatures_from_page"

NextFingerprint ==
  \/ \E elements \in PageElementSets,
        excluded_session_signature_set \in ExcludedSessionSignatureSets :
       CallGetSignaturesFromPage(elements, excluded_session_signature_set)
  \/ StartCall
  \/ \E e \in ElementIds : CallReturns(e)
  \/ StepReturns

SpecFingerprint == InitFingerprint /\ [][NextFingerprint]_vars

(***************************************************************************)
(* run_calling_context.py: the wrappers that tag the visit record they     *)
(* return with their calling context, and the replay of a tagged record.   *)
(* An Optional value is a set: empty for None, else the one value.         *)
(***************************************************************************)

\* BrowserUrlVisit.from_action: a visit record, without calling context
from_action(starting_url, ending_url) ==
  [starting_url |-> starting_url, ending_url |-> ending_url,
   open_url_calling_context |-> {}, fill_form_calling_context |-> {},
   click_signatures_in_sequence_calling_context |-> {}]

\* OpenUrlCallingContext(**function_arguments)
OpenUrlCallingContext(function_arguments) == [url |-> function_arguments.url]

\* FillFormCallingContext(**function_arguments)
FillFormCallingContext(function_arguments) ==
  [url |-> function_arguments.url,
   form_input |-> function_arguments.form_input,
   verbose |-> IF "verbose" \in DOMAIN function_arguments
               THEN function_arguments.verbose ELSE TRUE]

\* ClickSignaturesInSequenceCallingContext(**function_arguments)
ClickSignaturesInSequenceCallingContext(function_arguments) ==
  [url |-> function_arguments.url,
   signature_sequence |-> function_arguments.signature_sequence,
   include_all_clickable |-> IF "include_all_clickable" \in DOMAIN function_arguments
                             THEN function_arguments.include_all_clickable ELSE FALSE,
   min_elements |-> IF "min_elements" \in DOMAIN function_arguments
                    THEN function_arguments.min_elements ELSE 3,
   num_reloads |-> IF "num_reloads" \in DOMAIN function_arguments
                   THEN function_arguments.num_reloads ELSE 10]

\* BrowserUrlVisit.get_calling_context
get_calling_context(browser_url_visit) ==
  IF browser_url_visit.open_url_calling_context # {}
  THEN browser_url_visit.open_url_calling_context
  ELSE IF browser_url_visit.fill_form_calling_context # {}
  THEN browser_url_visit.fill_form_calling_context
  ELSE browser_url_visit.click_signatures_in_sequence_calling_context

\* what the browser makes of an operation: a visit record, no visit record
\* (the page fails to load, the form cannot be filled, the replay of the
\* sequence ends without a record), or for the click branch no results at all
Outcomes == {"visit", "no visit", "None"}

\* Maybe(content=..) and Maybe(error=..)
Maybe(content) == [status |-> "Maybe", content |-> content]

\* what a wrapper did: the operation it called, with the keyword arguments,
\* and the value it returned
Called(function_name, arguments, result) ==
  [call |-> {[function_name |-> function_name, arguments |-> arguments]},
   result |-> result]

\* _open_url_safe
open_url_safe(arguments, outcome) ==
  IF outcome = "visit" THEN Maybe({from_action(BlankUrl, arguments.url)}) ELSE Maybe({})

\* _fill_form_on_page_worker
fill_form_on_page_worker(arguments, outcome) ==
  IF outcome = "visit" THEN Maybe({from_action(arguments.url, arguments.url)})
  ELSE Maybe({})

\* clone_playwright_and_click_signatures_in_sequence_and_find_new_signatures,
\* as far as its visit record goes
clone_playwright_and_click_signatures_in_sequence_and_find_new_signatures(arguments, outcome) ==
  IF outcome = "None" THEN [status |-> "None", content |-> {}]
  ELSE [status |-> "results",
        content |-> IF outcome = "visit" THEN {from_action(arguments.url, arguments.url)}
                    ELSE {}]

\* open_url_with_context
open_url_with_context(function_arguments, outcome) ==
  LET calling_context == OpenUrlCallingContext(function_arguments)
      maybe_browser_url_visit == open_url_safe(calling_context, outcome)
  IN Called("_open_url_safe", calling_context,
            [maybe_browser_url_visit EXCEPT
               !.content = {[v EXCEPT !.open_url_calling_context = {calling_context}] : v \in @}])

\* fill_form_on_page_worker_with_context
fill_form_on_page_worker_with_context(function_arguments, outcome) ==
  LET calling_context == FillFormCallingContext(function_arguments)
      maybe_browser_url_visit == fill_form_on_page_worker(calling_context, outcome)
  IN Called("_fill_form_on_page_worker", calling_context,
            [maybe_browser_url_visit EXCEPT
               !.content = {[v EXCEPT !.fill_form_calling_context = {calling_context}] : v \in @}])

\* clone_playwright_and_click_signatures_in_sequence_and_find_new_signatures_with_context
clone_playwright_and_click_signatures_in_sequence_and_find_new_signatures_with_context(function_arguments, outcome) ==
  LET calling_context == ClickSignaturesInSequenceCallingContext(function_arguments)
      optional_results == clone_playwright_and_click_signatures_in_sequence_and_find_new_signatures(calling_context, outcome)
  IN Called("clone_playwright_and_click_signatures_in_sequence_and_find_new_signatures",
            calling_context,
            [optional_results EXCEPT
               !.content = {[v EXCEPT !.click_signatures_in_sequence_calling_context =
                                         {calling_context}] : v \in @}])

\* a replay that dispatches a fill-form record to the open-url wrapper
run_calling_context_opens_url(browser_url_visit, outcome) ==
  IF browser_url_visit.open_url_calling_context # {}
  THEN open_url_with_context(
         CHOOSE c \in browser_url_visit.open_url_calling_context : TRUE, outcome)
  ELSE IF browser_url_visit.fill_form_calling_context # {}
  THEN open_url_with_context(
         CHOOSE c \in browser_url_visit.fill_form_calling_context : TRUE, outcome)
  ELSE IF browser_url_visit.click_signatures_in_sequence_calling_context # {}
  THEN LET r == clone_playwright_and_click_signatures_in_sequence_and_find_new_signatures_with_context(
                  CHOOSE c \in browser_url_visit.click_signatures_in_sequence_calling_context : TRUE,
                  outcome)
       IN [r EXCEPT !.result = Maybe(r.result.content)]
  ELSE [call |-> {}, result |-> [status |-> "ValueError", content |-> {}]]

\* run_calling_context
run_calling_context(browser_url_visit, outcome) ==
  IF browser_url_visit.open_url_calling_context # {}
  THEN open_url_with_context(
         CHOOSE c \in browser_url_visit.open_url_calling_context : TRUE, outcome)
  ELSE IF browser_url_visit.fill_form_calling_context # {}
  THEN fill_form_on_page_worker_with_context(
         CHOOSE c \in browser_url_visit.fill_form_calling_context : TRUE, outcome)
  ELSE IF browser_url_visit.click_signatures_in_sequence_calling_context # {}
  THEN LET r == clone_playwright_and_click_signatures_in_sequence_and_find_new_signatures_with_context(
                  CHOOSE c \in browser_url_visit.click_signatures_in_sequence_calling_context : TRUE,
                  outcome)
       IN [r EXCEPT !.result = Maybe(r.result.content)]
  ELSE [call |-> {}, result |-> [status |-> "ValueError", content |-> {}]]

\* the keyword arguments the wrappers are called with
VisitUrls == {PageUrl, NextUrl}
FormInputs == {[q |-> "a"], [q |-> "b"]}
OpenUrlArguments == [url : VisitUrls]
FillFormArguments ==
  [url : VisitUrls, form_input : FormInputs]
    \cup [url : VisitUrls, form_input : FormInputs, verbose : BOOLEAN]
ClickArguments ==
  [url : {PageUrl},
   signature_sequence : {SignatureSequence(<<SignatureHandle("click", ButtonSignature("a"))>>),
                         SignatureSequence(<<SignatureHandle("click", ButtonSignature("l"))>>)}]

\* the caller has called api and got r: it holds the visit record of r, or
\* the one it held when r has none
Got(api, replayed, r) ==
  [browser_url_visit |-> IF r.result.content # {} THEN r.result.content
                         ELSE context.browser_url_visit,
   api |-> api, result |-> r.result, call |-> r.call, replayed |-> replayed]

\* playwright_page_manager.open_url(url), without a wrapper
PageManagerOpenUrl(u) ==
  /\ context' = Got("open_url", {},
                    Called("open_url", [url |-> u], Maybe({from_action(BlankUrl, u)})))
  /\ UNCHANGED <<crawl_vars, explorer_vars, evaluation, reload, api_vars>>

CallOpenUrlWithContext(function_arguments, outcome) ==
  /\ context' = Got("open_url_with_context", {},
                    open_url_with_context(function_arguments, outcome))
  /\ UNCHANGED <<crawl_vars, explorer_vars, evaluation, reload, api_vars>>

CallFillFormWithContext(function_arguments, outcome) ==
  /\ context' = Got("fill_form_on_page_worker_with_context", {},
                    fill_form_on_page_worker_with_context(function_arguments, outcome))
  /\ UNCHANGED <<crawl_vars, explorer_vars, evaluation, reload, api_vars>>

CallClickWithContext(function_arguments, outcome) ==
  /\ context' =
       Got("clone_playwright_and_click_signatures_in_sequence_and_find_new_signatures_with_context",
           {}, clone_playwright_and_click_signatures_in_sequence_and_find_new_signatures_with_context(function_arguments, outcome))
  /\ UNCHANGED <<crawl_vars, explorer_vars, evaluation, reload, api_vars>>

\* run_calling_context on the visit record in hand
CallRunCallingContext(outcome) ==
  /\ context.browser_url_visit # {}
  /\ context' = Got("run_calling_context", context.browser_url_visit,
                    run_calling_context(CHOOSE v \in context.browser_url_visit : TRUE, outcome))
  /\ UNCHANGED <<crawl_vars, explorer_vars, evaluation, reload, api_vars>>

InitContext ==
  /\ Constructed
  /\ config = ScenarioConfig
  /\ pc = "run_calling_context"

NextContext ==
  \/ \E u \in VisitUrls : PageManagerOpenUrl(u)
  \/ \E function_arguments \in OpenUrlArguments, outcome \in Outcomes :
       CallOpenUrlWithContext(function_arguments, outcome)
  \/ \E function_arguments \in FillFormArguments, outcome \in Outcomes :
       CallFillFormWithContext(function_arguments, outcome)
  \/ \E function_arguments \in ClickArguments, outcome \in Outcomes :
       CallClickWithContext(function_arguments, outcome)
  \/ \E outcome \in Outcomes : CallRunCallingContext(outcome)

SpecContext == InitContext /\ [][NextContext]_vars

(***************************************************************************)
(* reload_url_until_signatures_appear_and_get_signatures on its own, called *)
(* by the branch function or directly.  A signature is a string; an         *)
(* Optional argument is a set, empty for None; what get_signatures_from_page *)
(* finds after a reload is any of the observations below.                   *)
(***************************************************************************)

MaxReloads == 3

\* re.match(pattern, string) is not None: a match at the start of the string
re_match(pattern, string) == FullMatch(Append(pattern, ANY), string)

\* the value of an Optional that is not None
Some(optional) == CHOOSE v \in optional : TRUE

\* what get_signatures_from_page returns for the page as it is rendered
Observation(interactable_signatures, text_input_field_signatures) ==
  [interactable_signatures |-> interactable_signatures,
   text_input_field_signatures |-> text_input_field_signatures]

Observations ==
  {Observation({}, {}),
   Observation({<<"b", "1">>}, {}),
   Observation({<<"b", "1">>, <<"b", "2">>}, {}),
   Observation({<<"b", "1">>, <<"i", "1">>}, {<<"i", "1">>}),
   Observation({<<"b", "1">>, <<"b", "2">>, <<"i", "1">>}, {<<"i", "1">>})}

\* the arguments of the calls
ReloadArguments ==
  [caller : {"direct", "clone_playwright_and_click_signatures_in_sequence_and_find_new_signatures"},
   num_reloads : 0..MaxReloads,
   min_elements : {{}, {2}, {3}},
   required_signatures : {{}, {{}}, {{<<"b", "1">>}}, {{<<"b", "1">>, <<"i", "1">>}}},
   required_signatures_regex : {{}, {<<"i">>}, {<<"z">>}}]

\* line 263
all_signatures(observation) ==
  observation.interactable_signatures \cup observation.text_input_field_signatures

\* the page is reloaded only when neither the minimum is reached nor the
\* required signatures are all there
reloads_page_neither(arguments, observation) ==
  /\ ~(arguments.min_elements # {}
         /\ Cardinality(all_signatures(observation)) >= Some(arguments.min_elements))
  /\ ~(arguments.required_signatures # {}
         /\ Some(arguments.required_signatures) \subseteq all_signatures(observation))

\* lines 264-281: the conditions of the three branches that reload the page;
\* the else branch breaks
reloads_page(arguments, observation) ==
  \/ /\ arguments.min_elements # {}
     /\ Cardinality(all_signatures(observation)) < Some(arguments.min_elements)
  \/ /\ arguments.required_signatures # {}
     /\ ~(Some(arguments.required_signatures) \subseteq all_signatures(observation))
  \/ /\ arguments.required_signatures_regex # {}
     /\ ~\E signature \in all_signatures(observation) :
           re_match(Some(arguments.required_signatures_regex), signature)

\* lines 283-285 without the assert
after_loop_no_assert(r) ==
  IF r.iterations = 0
  THEN [r EXCEPT !.pc = "raised", !.raised = "UnboundLocalError"]
  ELSE [r EXCEPT !.pc = "returned", !.returned = {r.observed[Len(r.observed)]}]

\* lines 283-285: the assert and the return, which read the variables the
\* last iteration of the loop has bound; no iteration has bound them when
\* num_reloads is 0
after_loop(r) ==
  IF r.iterations = 0
  THEN [r EXCEPT !.pc = "raised", !.raised = "UnboundLocalError"]
  ELSE IF /\ r.required_signatures_regex # {}
          /\ ~\E signature \in all_signatures(r.observed[Len(r.observed)]) :
                re_match(Some(r.required_signatures_regex), signature)
  THEN [r EXCEPT !.pc = "raised", !.raised = "AssertionError"]
  ELSE [r EXCEPT !.pc = "returned", !.returned = {r.observed[Len(r.observed)]}]

\* reload_url_until_signatures_appear_and_get_signatures is called; the branch
\* function passes required_signatures=set(...), never None
CallReload(arguments) ==
  /\ reload = NoReload
  /\ arguments.caller # "direct" => arguments.required_signatures # {}
  /\ reload' = [reload EXCEPT
                  !.pc = IF arguments.num_reloads = 0 THEN "after loop" ELSE "loop",
                  !.caller = arguments.caller,
                  !.num_reloads = arguments.num_reloads,
                  !.min_elements = arguments.min_elements,
                  !.required_signatures = arguments.required_signatures,
                  !.required_signatures_regex = arguments.required_signatures_regex]
  /\ UNCHANGED <<crawl_vars, explorer_vars, evaluation, context, api_vars>>

\* one iteration of the for loop: get_signatures_from_page returns
\* observation, and the page is reloaded or the loop is left
Iteration(observation) ==
  /\ reload.pc = "loop"
  /\ reload' = [reload EXCEPT
                  !.iterations = @ + 1,
                  !.observed = Append(@, observation),
                  !.reloads = IF reloads_page(reload, observation) THEN @ + 1 ELSE @,
                  !.pc = IF /\ reloads_page(reload, observation)
                            /\ reload.iterations + 1 < reload.num_reloads
                         THEN "loop" ELSE "after loop"]
  /\ UNCHANGED <<crawl_vars, explorer_vars, evaluation, context, api_vars>>

\* the loop is over: the assert and the return
AfterLoop ==
  /\ reload.pc = "after loop"
  /\ reload' = after_loop(reload)
  /\ UNCHANGED <<crawl_vars, explorer_vars, evaluation, context, api_vars>>

\* the branch function: the except clause catches the exception, logs it and
\* the function returns None
BranchCatches ==
  /\ reload.pc = "raised"
  /\ reload.caller # "direct"
  /\ reload' = [reload EXCEPT !.pc = "branch returned", !.branch_result = "None"]
  /\ UNCHANGED <<crawl_vars, explorer_vars, evaluation, context, api_vars>>

\* the branch function goes on with
\* click_signatures_in_sequence_and_find_new_signatures
BranchGoesOn ==
  /\ reload.pc = "returned"
  /\ reload.caller # "direct"
  /\ reload' = [reload EXCEPT
                  !.pc = "branch returned",
                  !.branch_result = "click_signatures_in_sequence_and_find_new_signatures"]
  /\ UNCHANGED <<crawl_vars, explorer_vars, evaluation, context, api_vars>>

InitReload ==
  /\ Constructed
  /\ config = ScenarioConfig
  /\ pc = "reload_url_until_signatures_appear_and_get_signatures"

NextReload ==
  \/ \E arguments \in ReloadArguments : CallReload(arguments)
  \/ \E observation \in Observations : Iteration(observation)
  \/ AfterLoop
  \/ BranchCatches
  \/ BranchGoesOn

SpecReload == InitReload /\ [][NextReload]_vars

(***************************************************************************)
(* api/rate_limit.py: the RateLimiter of the api.  Times are seconds, the   *)
(* clock is time.time() and only moves forward.                            *)
(***************************************************************************)

MaxCalls == 4
MaxHalfMinutes == 5

Tokens == {"t1", "t2"}

\* the steps of the clock between two calls, in seconds
ClockSteps == {30, 60}

\* is_rate_limited that compares the length of the log with > in place of >=
is_rate_limited_above(self, token, current_time) ==
  With(IF token \in DOMAIN self.request_logs THEN self.request_logs[token] ELSE <<>>,
       LAMBDA log :
  With(current_time - (self.window_size_in_minutes * 60), LAMBDA window_start_time :
  With(SelectSeq(log, LAMBDA t : t > window_start_time), LAMBDA kept :
    IF Len(kept) > self.max_requests_per_period
    THEN [self |-> [self EXCEPT !.request_logs = (token :> kept) @@ @], out |-> TRUE]
    ELSE [self |-> [self EXCEPT !.request_logs =
                                   (token :> Append(kept, current_time)) @@ @],
          out |-> FALSE])))

\* RateLimiter.is_rate_limited at the time current_time: the limiter after the
\* call and the value returned
is_rate_limited(self, token, current_time) ==
  With(IF token \in DOMAIN self.request_logs THEN self.request_logs[token] ELSE <<>>,
       LAMBDA log :
  With(current_time - (self.window_size_in_minutes * 60), LAMBDA window_start_time :
  With(SelectSeq(log, LAMBDA t : t > window_start_time), LAMBDA kept :
    IF Len(kept) >= self.max_requests_per_period
    THEN [self |-> [self EXCEPT !.request_logs = (token :> kept) @@ @], out |-> TRUE]
    ELSE [self |-> [self EXCEPT !.request_logs =
                                   (token :> Append(kept, current_time)) @@ @],
          out |-> FALSE])))

\* RateLimiter.__init__
ConstructRateLimiter(max_requests_per_period, window_size_in_minutes) ==
  /\ ~rate_limiter.constructed
  /\ rate_limiter' = [rate_limiter EXCEPT
                        !.constructed = TRUE,
                        !.max_requests_per_period = max_requests_per_period,
                        !.window_size_in_minutes = window_size_in_minutes,
                        !.request_logs = <<>>]
  /\ UNCHANGED <<crawl_vars, automation_vars>>

\* time passes between two requests
ClockAdvances(seconds) ==
  /\ rate_limiter.constructed
  /\ rate_limiter.current_time + seconds <= 30 * MaxHalfMinutes
  /\ rate_limiter' = [rate_limiter EXCEPT !.current_time = @ + seconds]
  /\ UNCHANGED <<crawl_vars, automation_vars>>

\* classify_url calls RATE_LIMITER.is_rate_limited(token=token)
CallIsRateLimited(token) ==
  /\ rate_limiter.constructed
  /\ Len(rate_limiter.calls) < MaxCalls
  /\ LET r == is_rate_limited(rate_limiter, token, rate_limiter.current_time)
     IN rate_limiter' = [r.self EXCEPT !.calls =
                           Append(@, [token |-> token,
                                      current_time |-> rate_limiter.current_time,
                                      out |-> r.out])]
  /\ UNCHANGED <<crawl_vars, automation_vars>>

InitRateLimit ==
  /\ Constructed
  /\ config = ScenarioConfig
  /\ pc = "api"

NextRateLimit ==
  \/ \E max_requests_per_period \in 1..2, window_size_in_minutes \in 1..2 :
       ConstructRateLimiter(max_requests_per_period, window_size_in_minutes)
  \/ \E seconds \in ClockSteps : ClockAdvances(seconds)
  \/ \E token \in Tokens : CallIsRateLimited(token)

SpecRateLimit == InitRateLimit /\ [][NextRateLimit]_vars

(***************************************************************************)
(* Properties                                                              *)
(***************************************************************************)

\* the urls pop_from_queue has returned
Popped == {pop_log[i].value : i \in 1..Len(pop_log)}

\* the urls whose visit raised
Failed == {f.url : f \in failed_urls}

\* the step is a call of _enqueue_url, with the argument url_on_page'
IsEnqueueStep ==
  /\ url_on_page' # None
  /\ (seeded' # seeded \/ iterated' # iterated)

\* C1: no url is returned by pop_from_queue more than once, and run() never
\* reaches the guard that raises "Url ... has already been visited".
NoUrlPoppedTwice ==
  /\ \A i, j \in 1..Len(pop_log) : i # j => pop_log[i].value # pop_log[j].value
  /\ pc # "raised already visited"

\* C1 witness: two urls were popped, and a page visited after the first pop
\* links to the url popped first, which was passed to _enqueue_url again.
PoppedUrlReEnqueued ==
  /\ Len(pop_log) = 2
  /\ pc = "harvest"
  /\ url_on_page # None
  /\ Offered(url_on_page) = pop_log[1].value

\* C2: the pending queue is part of the ever-enqueued set, no url is both
\* pending and visited, every visited url was enqueued and popped, and in
\* every step ever-enqueued and visited urls stay so, a visit record is
\* written once, and a url that has left the pending queue does not re-enter.
UrlLifecycle ==
  /\ [](/\ queue \subseteq has_ever_been_enqueued
        /\ queue \cap DOMAIN visited_urls = {}
        /\ DOMAIN visited_urls \subseteq has_ever_been_enqueued
        /\ DOMAIN visited_urls \subseteq Popped)
  /\ [][/\ has_ever_been_enqueued \subseteq has_ever_been_enqueued'
        /\ \A u \in DOMAIN visited_urls :
             u \in DOMAIN visited_urls' /\ visited_urls'[u] = visited_urls[u]
        /\ \A u \in has_ever_been_enqueued \ queue : u \notin queue']_vars

\* C2 witness: one url is visited, another is pending, and the page being
\* harvested links to the visited one.
VisitedUrlReHarvested ==
  /\ pc = "harvest"
  /\ queue # {}
  /\ url_on_page # None
  /\ Offered(url_on_page) \in DOMAIN visited_urls

\* the canonical urls of the model that match the asset pattern
AssetUrls == {u \in {Offered(raw) : raw \in RawUrls} : url_is_asset(u)}

\* the urls _enqueue_url was called with that start with "http" and are in scope
InScopeOffered ==
  {u \in offered : StartsWith(u, <<"h","t","t","p">>) /\ url_in_scope(config, u)}

WithBase(S, b) == {u \in S : get_base_url_from_url(u) = b}

BaseUrls == {get_base_url_from_url(u) : u \in offered}

\* C3 as stated: at most max_urls_per_base_url accepted urls per base url, and
\* of N > max_urls_per_base_url distinct in-scope variants of one base url
\* exactly max_urls_per_base_url are accepted.
BaseUrlCapExact ==
  LET variants == InScopeOffered
  IN \A b \in BaseUrls :
       LET accepted == WithBase(has_ever_been_enqueued, b)
       IN /\ Cardinality(accepted) <= config.max_urls_per_base_url
          /\ Cardinality(WithBase(variants, b)) > config.max_urls_per_base_url
               => /\ Cardinality(accepted) = config.max_urls_per_base_url
                  /\ (WithBase(variants, b) \ accepted) \cap queue = {}

\* C3 amended: at most max_urls_per_base_url accepted urls per base url, and
\* of N > max_urls_per_base_url distinct in-scope variants of one base url that
\* are not assets exactly max_urls_per_base_url are accepted; the others are
\* skipped and are in neither the ever-enqueued set nor the pending queue.
BaseUrlCap ==
  LET variants == InScopeOffered \ AssetUrls
  IN \A b \in BaseUrls :
       LET accepted == WithBase(has_ever_been_enqueued, b)
           eligible == WithBase(variants, b)
       IN /\ Cardinality(accepted) <= config.max_urls_per_base_url
          /\ accepted \subseteq eligible
          /\ Cardinality(eligible) > config.max_urls_per_base_url
               => /\ Cardinality(accepted) = config.max_urls_per_base_url
                  /\ (eligible \ accepted) \cap queue = {}
                  /\ (eligible \ accepted) \subseteq skipped_urls

\* C3 witness: three variants of http://h/a were enqueued under a cap of two.
ThreeVariantsCapTwo ==
  /\ config.max_urls_per_base_url = 2
  /\ Cardinality(WithBase(InScopeOffered, U_a)) = 3
  /\ Cardinality(WithBase(has_ever_been_enqueued, U_a)) = 2

\* C4: a call of _enqueue_url with a url whose canonical form was enqueued
\* before changes none of the pending queue, the ever-enqueued set, the
\* base-url map, and the visited, skipped and asset sets.
ReEnqueueChangesNothing ==
  [][(IsEnqueueStep /\ Offered(url_on_page') \in has_ever_been_enqueued)
       => UNCHANGED <<queue, has_ever_been_enqueued,
                      enqueued_base_url_to_parameterized_url_set,
                      visited_urls, skipped_urls, asset_urls>>]_vars

VisitsBelowCap ==
  /\ [](/\ Cardinality(Popped) <= config.max_url_count
        /\ Cardinality(DOMAIN visited_urls) <= config.max_url_count)
  /\ [][Len(pop_log') # Len(pop_log) =>
          /\ queue # {}
          /\ Cardinality(has_ever_been_enqueued) < config.max_url_count]_vars

\* C6 witness: run() has returned with urls still pending, because the
\* ever-enqueued count reached max_url_count after a url was visited.
StoppedAtCap ==
  /\ pc = "done"
  /\ queue # {}
  /\ DOMAIN visited_urls # {}
  /\ Cardinality(has_ever_been_enqueued) >= config.max_url_count

\* the length of the longest common prefix of two strings
CommonPrefixLen(a, b) ==
  Max({n \in 0..Len(a) : n <= Len(b) /\ SubSeq(a, 1, n) = SubSeq(b, 1, n)})

\* /a/1, /a/2 and /b/1 were enqueued, then popped one after the other
ThreePopped ==
  /\ Len(pop_log) >= 3
  /\ pop_log[1].pending = {P_a1, P_a2, P_b1}
  /\ pop_log[2].pending = {P_a1, P_a2, P_b1} \ {pop_log[1].value}
  /\ pop_log[3].pending = {P_a1, P_a2, P_b1} \ {pop_log[1].value, pop_log[2].value}

\* C7: every pop returns a pending string whose score in the trie of the
\* popped strings is minimal among the pending ones; and when /a/1, /a/2 and
\* /b/1 are popped, the second popped does not share a longer prefix with the
\* first than the third does.
PopsShortestPrefix ==
  /\ [][Len(pop_log') # Len(pop_log) =>
          LET value == pop_log'[Len(pop_log')].value
          IN /\ value \in queue
             /\ \A w \in queue :
                  prioritization_fn(trie, value) <= prioritization_fn(trie, w)]_vars
  /\ [](ThreePopped =>
          CommonPrefixLen(pop_log[2].value, pop_log[1].value)
            <= CommonPrefixLen(pop_log[3].value, pop_log[1].value))

\* C7 witness: /a/1 was popped first, then /b/1, then /a/2.
BreadthFirstOrder ==
  /\ ThreePopped
  /\ pop_log[1].value = P_a1
  /\ pop_log[2].value = P_b1
  /\ pop_log[3].value = P_a2

\* C8: url_in_scope returns true exactly when the host of the url full-matches
\* included_fqdn_regex, included_url_regex is None or full-matches the url,
\* and excluded_url_regex is None or does not full-match the url; the call
\* changes nothing of the spider.
ScopePredicate ==
  /\ [](scope_call.url # None =>
          scope_call.result =
            (/\ FullMatch(config.included_fqdn_regex, get_fqdn_from_url(scope_call.url))
             /\ (config.included_url_regex = None
                   \/ FullMatch(config.included_url_regex, scope_call.url))
             /\ (config.excluded_url_regex = None
                   \/ ~FullMatch(config.excluded_url_regex, scope_call.url))))
  /\ [][scope_call' # scope_call =>
          UNCHANGED <<queue, has_ever_been_enqueued, trie,
                      enqueued_base_url_to_parameterized_url_set, visited_urls,
                      skipped_urls, asset_urls, config>>]_vars

\* C8 witness: with all three patterns configured, a url was found in scope.
InScopeUnderAllPatterns ==
  /\ config.included_url_regex # None
  /\ config.excluded_url_regex # None
  /\ scope_call.url # None
  /\ scope_call.result

\* C9 as stated: every asset url passed to _enqueue_url is in asset_urls and in
\* neither the pending queue nor the ever-enqueued set, in scope or not.
AssetsRecordedAsAssets ==
  \A u \in offered \cap AssetUrls :
      u \in asset_urls /\ u \notin queue /\ u \notin has_ever_been_enqueued

\* C9 amended: every url passed to _enqueue_url whose canonical form matches
\* the asset pattern is in neither the pending queue nor the ever-enqueued
\* set, in scope or not; it is in asset_urls when it is in scope, and in
\* skipped_urls and not in asset_urls when it is out of scope.
AssetsNeverQueued ==
  \A u \in offered \cap AssetUrls :
      /\ u \notin queue
      /\ u \notin has_ever_been_enqueued
      /\ IF url_in_scope(config, u)
         THEN u \in asset_urls
         ELSE u \in skipped_urls /\ u \notin asset_urls

\* C9 witness: an asset in scope and an asset out of scope were enqueued.
BothAssetsOffered ==
  /\ U_js_q \in offered
  /\ U_js_q \in asset_urls
  /\ U_ext_js \in offered

\* C10: a url whose visit raised is not in visited_urls, is not pending, is in
\* the ever-enqueued set and was popped once; the step in which the visit
\* raises changes nothing of the frontier and of the sets of the spider, and
\* leaves run() at the head of its loop.
FailedVisitDropped ==
  /\ [](\A u \in Failed :
          /\ u \notin DOMAIN visited_urls
          /\ u \notin queue
          /\ u \in has_ever_been_enqueued
          /\ Cardinality({i \in 1..Len(pop_log) : pop_log[i].value = u}) = 1)
  /\ [][failed_urls' # failed_urls =>
          /\ pc' = "loop"
          /\ UNCHANGED <<queue, has_ever_been_enqueued,
                         enqueued_base_url_to_parameterized_url_set,
                         visited_urls, skipped_urls, asset_urls, offered>>]_vars

\* C10 witness: the visit of the first popped url raised, the loop went on
\* with a second url, and the page of that one links to the url that failed.
FailedUrlReHarvested ==
  /\ Len(pop_log) = 2
  /\ pop_log[1].value \in Failed
  /\ pc = "harvest"
  /\ url_on_page # None
  /\ Offered(url_on_page) = pop_log[1].value

\* the urls whose visit raised because open_url failed and unwrap() raised
LoadFailed == {f.url : f \in {g \in failed_urls : g.cause = "open_url"}}

\* C11 as stated: a url whose page failed to load is marked visited, its
\* visit record holding the failure.
LoadFailureMarkedVisited ==
  \A u \in LoadFailed : u \in DOMAIN visited_urls

\* C11: a url whose page failed to load has no visit record, now or later,
\* every visit record comes from a page that was opened, and the url is not
\* retried: it is not pending and was popped once.
LoadFailureNotRecorded ==
  /\ \A u \in LoadFailed :
       /\ u \notin DOMAIN visited_urls
       /\ u \notin queue
       /\ Cardinality({i \in 1..Len(pop_log) : pop_log[i].value = u}) = 1
  /\ \A u \in DOMAIN visited_urls : visited_urls[u].ending_url # None

\* C11 witness: the first popped url failed to load, the loop went on, a
\* later url was visited and stored, and run() has returned.
LoadFailedThenVisited ==
  /\ pc = "done"
  /\ Len(pop_log) >= 2
  /\ pop_log[1].value \in LoadFailed
  /\ DOMAIN visited_urls # {}

\* the step is a return of get_visited_url after a navigation that ended on a
\* url out of scope
IsOutOfScopeRedirect ==
  /\ pc = "visit"
  /\ visited_url' # visited_url
  /\ ~url_in_scope(config, visited_url'.ending_url)

\* C12: when the navigation of the popped url ends out of scope, the step
\* puts the destination in skipped_urls, stores a visit record of the origin
\* under the origin, enqueues nothing and is back at the head of the loop;
\* links are only ever harvested from a page that is in scope.
OutOfScopeRedirectSkipped ==
  /\ [](pc = "harvest" => url_in_scope(config, visited_url.ending_url))
  /\ [][IsOutOfScopeRedirect =>
          /\ visited_url'.ending_url \in skipped_urls'
          /\ url \in DOMAIN visited_urls'
          /\ visited_urls'[url].url = url
          /\ visited_urls'[url].ending_url = visited_url'.ending_url
          /\ pc' = "loop"
          /\ UNCHANGED <<queue, has_ever_been_enqueued, trie,
                         enqueued_base_url_to_parameterized_url_set,
                         asset_urls, offered>>]_vars

\* C12 witness: a popped url was redirected out of scope while another url
\* was pending; the destination is skipped and the origin has its record.
RedirectedOutOfScope ==
  /\ pc = "loop"
  /\ queue # {}
  /\ url \in DOMAIN visited_urls
  /\ visited_urls[url].ending_url \in RedirectUrls
  /\ visited_urls[url].ending_url \in skipped_urls
  /\ visited_urls[url].ending_url # url

\* the /login urls of the scenario: /login and /login?ref=1 .. /login?ref=4
LoginVariants == {u \in UrlsOnPage(S_root) : get_base_url_from_url(u) = S_login}

\* C13: every run of the site.test scenario returns, and when it has
\* returned exactly 3 of the /login variants and /about were accepted, 5
\* urls were popped and visited, each with a visit record, and the frontier
\* is empty; no run reaches an assertion or the already-visited guard.
ScenarioVisitsFive ==
  /\ <>(pc = "done")
  /\ [](pc \in {"seeding", "loop", "visit", "harvest", "done"})
  /\ [](pc = "done" =>
          /\ Cardinality(has_ever_been_enqueued \cap LoginVariants) = 3
          /\ S_about \in has_ever_been_enqueued
          /\ has_ever_been_enqueued \subseteq {S_root, S_about} \cup LoginVariants
          /\ Len(pop_log) = 5
          /\ Cardinality(DOMAIN visited_urls) = 5
          /\ DOMAIN visited_urls = has_ever_been_enqueued
          /\ queue = {})

\* C13 witness: a finished run in which the links were enqueued in an order
\* that rejected the plain /login and /login?ref=4.
ScenarioLoginRejected ==
  /\ pc = "done"
  /\ S_login \in skipped_urls
  /\ urljoin(S_root, H_login_ref("4")) \in skipped_urls
  /\ Cardinality(DOMAIN visited_urls) = 5

\* the handles of the sequence of a branch
Handles(b) == b.signature_sequence.signature_sequence

\* the last call of click_signatures_in_sequence_and_find_new_signatures got
\* as far as the test of the page url and of the sequence length
ReachedDepthTest == returned.branch.pc = "exit"

\* C14 as stated: a call with max_signature_sequence_length = K on a sequence
\* of length K or more ends with an empty list of child sequences.
DepthLimitEndsBranch ==
  (/\ ReachedDepthTest
   /\ returned.branch.max_signature_sequence_length # NoLength
   /\ Len(Handles(returned.branch)) >= returned.branch.max_signature_sequence_length)
  => /\ returned.results.status = "results"
     /\ returned.results.discovered_signature_sequence_list = {}

\* the elements that were on the page before some action of the replay
PresentBeforeAnAction(b) == b.present_before

ReplayCauses == {"get_session_signatures", "take_action_on_signature_handle"}

\* the last call was a call of the branch function, and it has returned
BranchReturned == returned.branch.n > 0 /\ ~returned.branch.direct

BranchActsOnItsClone ==
  /\ [](/\ pages[BasePage] = Page(PageUrl, InitialElements, {})
        /\ \A h \in DOMAIN pages : Cardinality(pages[h].acted_by) <= 1
        /\ (branch.pc # "idle" /\ branch.page # NoPage) =>
             /\ branch.page # BasePage
             /\ pages[branch.page].acted_by \subseteq {branch.n})
  /\ [][/\ \A h \in DOMAIN pages :
             (h # branch.page /\ h # branch'.page) => pages'[h] = pages[h]
        /\ (branch.pc = "clone" /\ branch'.pc = "open_url") =>
             /\ branch'.page \notin DOMAIN pages
             /\ DOMAIN pages' = DOMAIN pages \cup {branch'.page}]_vars

\* C18 witness: two branches have run, each has acted on a clone of its own,
\* and both clones are closed.
TwoBranchesTwoClones ==
  /\ branches = 2
  /\ branch.pc = "idle"
  /\ \E h1, h2 \in DOMAIN pages :
       /\ h1 # h2
       /\ pages[h1].acted_by = {1} /\ ~pages[h1].open
       /\ pages[h2].acted_by = {2} /\ ~pages[h2].open

\* C20 as stated: when no element matches a handle outside the exclusion set
\* the replay stops there with an error and without a visit record.
MissingElementAbortsReplay ==
  \A k \in 1..Len(branch.outcomes) :
    branch.outcomes[k] = "no element" =>
      /\ k = Len(branch.outcomes)
      /\ branch.pc # "replay"
      /\ branch.error # NoError
      /\ branch.browser_url_visit = NoBrowserUrlVisit

\* C17 as stated: at no time are two calls in flight against the elements of
\* one page.
EvaluationsOneAtATime == Cardinality(evaluation.in_flight) <= 1

\* the calling-context tags a visit record carries, each with the operation
\* its field stands for
Tags(browser_url_visit) ==
  {[function_name |-> "_open_url_safe", arguments |-> c] :
     c \in browser_url_visit.open_url_calling_context}
  \cup {[function_name |-> "_fill_form_on_page_worker", arguments |-> c] :
          c \in browser_url_visit.fill_form_calling_context}
  \cup {[function_name |-> "clone_playwright_and_click_signatures_in_sequence_and_find_new_signatures",
         arguments |-> c] :
          c \in browser_url_visit.click_signatures_in_sequence_calling_context}

\* the wrappers that tag their visit record
Wrappers ==
  {"open_url_with_context", "fill_form_on_page_worker_with_context",
   "clone_playwright_and_click_signatures_in_sequence_and_find_new_signatures_with_context"}

\* the operation each wrapper runs
WrappedOperation(api) ==
  CASE api = "open_url_with_context" -> "_open_url_safe"
    [] api = "fill_form_on_page_worker_with_context" -> "_fill_form_on_page_worker"
    [] OTHER -> "clone_playwright_and_click_signatures_in_sequence_and_find_new_signatures"

\* C19: a visit record a wrapper returns carries one calling-context tag, that
\* of the operation the wrapper ran, holding the arguments the operation was
\* run with. run_calling_context on a tagged record runs the operation of the
\* tag with the arguments of the tag and does not raise, and a visit record it
\* yields carries the same tag as the record replayed; on a record without a
\* tag it raises ValueError and runs nothing.
CallingContextRoundTrip ==
  /\ context.api \in Wrappers =>
       /\ \A c \in context.call : c.function_name = WrappedOperation(context.api)
       /\ \A v \in context.result.content : Tags(v) = context.call
  /\ context.api = "run_calling_context" =>
       \A v \in context.replayed :
         IF Tags(v) = {}
         THEN /\ context.result.status = "ValueError"
              /\ context.call = {}
         ELSE /\ context.result.status = "Maybe"
              /\ context.call = Tags(v)
              /\ Cardinality(context.call) = 1
              /\ \A w \in context.result.content :
                   /\ Tags(w) = Tags(v)
                   /\ get_calling_context(w) = get_calling_context(v)

\* C19 witness: a visit record of the fill-form wrapper, made with verbose
\* off, has been replayed, and the replay has yielded a visit record.
FillFormReplayed ==
  /\ context.api = "run_calling_context"
  /\ context.result.content # {}
  /\ \E v \in context.replayed :
       /\ v.fill_form_calling_context # {}
       /\ \A c \in v.fill_form_calling_context : ~c.verbose

\* the last call got as far as its results, after a replay that ended with an
\* exception
ReplayRaised(b) ==
  /\ b.pc = "exit"
  /\ b.outcomes # <<>>
  /\ b.outcomes[Len(b.outcomes)] = "raised"

\* the elements on the page at discovery that the call takes for new: those
\* whose session signature is not in the snapshot taken before the replay
\* (all of them when that snapshot is empty)
NewElements(b) ==
  {e \in b.discovery.elements :
     \/ b.initial_session_signature_set = {}
     \/ get_session_signature(e) \notin b.initial_session_signature_set}

\* the handles for the new elements: Click for one with an interactable tag
\* that is not navigable, Submit for a text input
NewHandles(b) ==
  {SignatureHandle("click", get_signature(e)) :
     e \in {x \in NewElements(b) :
              /\ Element[x].tag \in {"A", "BUTTON", "SELECT", "TEXTAREA", "INPUT"}
              /\ ~locator_is_navigable(x)}}
  \cup {SignatureHandle("submit", get_signature(e)) :
          e \in {x \in NewElements(b) : Element[x].tag \in {"TEXTAREA", "INPUT"}}}

\* the child sequences of b for a set of handles
Children(b, handles) ==
  {[signature_sequence |-> Handles(b) \o <<h>>,
    required_signatures |-> b.signature_sequence.required_signatures] : h \in handles}

ExclusionRespected(b) ==
  /\ b.excluded_session_signature_set =
       UNION {b.snapshots[k] : k \in 1..Len(b.snapshots)}
  /\ \A k \in 1..Len(b.acted) : \A j \in 1..(k - 1) :
       b.acted[k] # 0 => get_session_signature(b.acted[k]) \notin b.snapshots[j]

\* C22: the exclusion set of a replay is empty before the first handle and
\* then only grows, by the pre-action snapshot of each handle executed without
\* error; the element acted on for a handle has no session signature that was
\* in the snapshot taken before an earlier handle of the sequence.
ExclusionSetGrows ==
  /\ [](/\ ExclusionRespected(branch)
        /\ ExclusionRespected(returned.branch)
        /\ branch.i <= 1 => branch.excluded_session_signature_set = {})
  /\ [][(branch.n > 0 /\ branch'.n = branch.n) =>
          /\ branch.excluded_session_signature_set
               \subseteq branch'.excluded_session_signature_set
          /\ (branch'.excluded_session_signature_set
                # branch.excluded_session_signature_set) =>
               /\ Len(branch'.outcomes) = Len(branch.outcomes) + 1
               /\ branch'.outcomes[Len(branch'.outcomes)] # "raised"
               /\ branch'.excluded_session_signature_set =
                    branch.excluded_session_signature_set
                      \cup SessionSignatureSet(pages[branch.page])]_vars

\* C22 witness: the third handle of a sequence has the signature of the
\* button 1, which is excluded, and was executed on the button 4.
ExcludedElementPassedOver ==
  /\ returned.branch.acted = <<1, 2, 4>>
  /\ get_signature(1) = get_signature(4)

\* the replay of the last call left the page at another url than it had
\* before the replay
Redirected(b) == b.pc = "exit" /\ b.discovery.url # b.starting_url

\* C23: when the url of the page after the replay differs from the url it had
\* before, the call returns results without child sequences, and the href and
\* image links of the page it ended on are in the links of the results.
RedirectEndsBranch ==
  Redirected(returned.branch) =>
    /\ returned.branch.results.status = "results"
    /\ returned.branch.results.discovered_signature_sequence_list = {}
    /\ get_href_links_from_page(returned.branch.discovery)
         \subseteq returned.branch.results.discovered_links_set
    /\ get_image_links_from_page(returned.branch.discovery)
         \subseteq returned.branch.results.discovered_links_set

\* C23 witness: a click took the page to NextUrl, where there is a button the
\* call has not seen before, and the links of that page were returned.
RedirectedWithLinks ==
  /\ Redirected(returned.branch)
  /\ returned.branch.discovery.url = NextUrl
  /\ NewHandles(returned.branch) # {}
  /\ {MoreUrl, LogoUrl} \subseteq returned.branch.results.discovered_links_set

\* the last call ran discovery: it returned results and the url of the page
\* had not changed
DiscoveryRan(b) ==
  /\ b.pc = "exit"
  /\ b.results.status = "results"
  /\ b.discovery.url = b.starting_url

\* the last handle of a child sequence
NewHandle(child) == child.signature_sequence[Len(child.signature_sequence)]

PoppedUrlInTrie ==
  [][pop_log' # pop_log =>
       \A i \in 0..Len(pop_log'[Len(pop_log')].value) :
         PathFromKey(SubSeq(pop_log'[Len(pop_log')].value, 1, i)) \in trie']_vars

\* C28 as stated: the number of urls ever enqueued never exceeds
\* max_url_count.
EnqueuedBelowCap ==
  Cardinality(has_ever_been_enqueued) <= config.max_url_count

\* C28: the number of urls ever enqueued grows only while the seeds are
\* enqueued and while the links of a visited page are enqueued; it is at most
\* the number of seeds at the first, and at most max_url_count - 1 plus the
\* number of links of the page enqueued so far at the second.
EnqueuedBelowCapAtVisit ==
  /\ [](pc = "seeding" => Cardinality(has_ever_been_enqueued) <= seeded)
  /\ [](pc = "harvest" =>
          Cardinality(has_ever_been_enqueued)
            <= config.max_url_count - 1 + Cardinality(iterated))
  /\ [][has_ever_been_enqueued' # has_ever_been_enqueued =>
          pc \in {"seeding", "harvest"}]_vars

\* C28 witness: the links of a visited page are being enqueued and more than
\* max_url_count urls were ever enqueued.
LastPageExceedsCap ==
  /\ pc = "harvest"
  /\ pop_log # <<>>
  /\ Cardinality(has_ever_been_enqueued) > config.max_url_count

\* the calls of is_rate_limited with the token that returned False
Accepted(token) ==
  {i \in 1..Len(rate_limiter.calls) :
     rate_limiter.calls[i].token = token /\ ~rate_limiter.calls[i].out}

\* the last call of is_rate_limited, in the state after it
LastCall == rate_limiter.calls[Len(rate_limiter.calls)]

IterationStep == reload'.iterations = reload.iterations + 1

\* the signatures the iteration of the step has observed
Seen == all_signatures(reload'.observed[Len(reload'.observed)])

\* (a) of C24: the number of distinct signatures has reached min_elements
MinimumReached ==
  reload.min_elements # {} /\ Cardinality(Seen) >= Some(reload.min_elements)

\* (b) of C24: the required signatures are all present
RequiredPresent ==
  reload.required_signatures # {} /\ Some(reload.required_signatures) \subseteq Seen

\* C24 as stated: an iteration reloads the page only when neither (a) nor (b)
\* holds, the loop ends at the first iteration where (a) or (b) holds, and
\* otherwise after num_reloads reloads.
ReloadsUntilEitherHolds ==
  [][IterationStep =>
       /\ reload'.reloads > reload.reloads => ~MinimumReached /\ ~RequiredPresent
       /\ (MinimumReached \/ RequiredPresent) =>
            reload'.pc = "after loop" /\ reload'.reloads = reload.reloads
       /\ (reload'.pc = "after loop" /\ ~(MinimumReached \/ RequiredPresent)) =>
            reload'.reloads = reload.num_reloads]_vars

\* C24: an iteration reloads the page exactly when min_elements is given and
\* not reached, or the required set is given and not all present, or the
\* regex is given and matches no signature; the loop ends at the first
\* iteration that does not reload, and otherwise after num_reloads
\* iterations, each with a reload.
ReloadsUntilAllHold ==
  /\ [][IterationStep =>
          /\ reload'.reloads > reload.reloads <=>
               \/ reload.min_elements # {}
                    /\ Cardinality(Seen) < Some(reload.min_elements)
               \/ reload.required_signatures # {}
                    /\ ~(Some(reload.required_signatures) \subseteq Seen)
               \/ reload.required_signatures_regex # {}
                    /\ \A signature \in Seen :
                         ~re_match(Some(reload.required_signatures_regex), signature)
          /\ reload'.reloads \in {reload.reloads, reload.reloads + 1}
          /\ reload'.pc = "after loop" <=>
               \/ reload'.reloads = reload.reloads
               \/ reload'.reloads = reload.num_reloads]_vars
  /\ [](/\ reload.reloads <= reload.iterations
        /\ reload.iterations <= reload.num_reloads
        /\ reload.pc = "loop" => reload.reloads = reload.iterations)
  /\ [][reload'.reloads # reload.reloads => IterationStep]_vars

\* C24 witness: the required signatures were all present in the first
\* iteration and fewer than min_elements signatures were found, the page was
\* reloaded, and the second iteration left the loop.
ReloadedWithRequiredPresent ==
  /\ reload.pc = "after loop"
  /\ reload.iterations = 2
  /\ reload.reloads = 1
  /\ reload.min_elements # {}
  /\ reload.required_signatures # {}
  /\ Some(reload.required_signatures) # {}
  /\ Some(reload.required_signatures) \subseteq all_signatures(reload.observed[1])

\* reload-until-ready is over
ReloadOver == reload.pc \in {"raised", "returned", "branch returned"}

====
